---- MODULE Spec2Model ----
(***************************************************************************)
(* A model of the Revolut transaction converter: revolut_utils.py and the  *)
(* entry points built on it.                                                *)
(*                                                                          *)
(* Conventions.  A Python str is a tuple of one-character strings, so that  *)
(* parsing and formatting are computed and not assumed.  Money is an        *)
(* integer number of cents; an exchange rate is an exact fraction <<n, d>>. *)
(* None / NaN / "absent" is the empty tuple <<>> and a present scalar v is  *)
(* <<v>>.  Binary floating point error is outside the model.                *)
(***************************************************************************)
EXTENDS Integers, Sequences, FiniteSets, TLC

VARIABLES
    pc,               \* position of the process under study
    ret,              \* what the call under study returned or raised
    osEnv,            \* os.environ["RUN_DATE"] of the process
    dotEnv,           \* RUN_DATE as written in the .env file
    envLoaded,        \* revolut_utils._ENV_LOADED
    inputRootExists,  \* whether the input root directory exists
    inputChildren,    \* the entries of the input root: name -> absent, dir, file
    outputHist,       \* output/<folder>/<filename>: folder name -> the CSV file
    priorArgs,        \* the arguments of get_latest_balance_history_value
    readFolder,       \* the folder whose file pd.read_csv was given
    apiSource,        \* "source" of the rate API's response
    apiQuotes,        \* "quotes" of the response: date -> pair code -> rate
    rateArgs,         \* the currencies a rate table builder is asked for
    transactions,     \* the canonical transactions given to build_balance_history
    balanceArgs,      \* its accounts and the table behind its rate_lookup
    lookupCalls,      \* the (date_str, currency) pairs rate_lookup was called with
    warns,            \* the WARN lines printed, in order
    inputFile,        \* the rows of the export a converter reads
    apiKey,           \* EXCHANGE_RATE_API_KEY as os.getenv gives it after load_env
    outputFiles,      \* the import files of the run's output folder, by name
    builtRates,       \* the rate table a converter run built, if it got that far
    entryPoint,       \* the balance-history entry point that is run
    importTree,       \* the transaction import files of the output root, by folder and name
    listing,          \* the order in which the file system lists the folders
    reached,          \* the steps the last balance-history run got to
    runLog,           \* the completed balance-history runs: their run dates, the
                      \* starting balance of the first, and how many times in a
                      \* row the last one ran with no file changed meanwhile
    runs            \* the number of balance-history runs so far

runDateVars == <<osEnv, dotEnv, envLoaded, inputRootExists, inputChildren>>

priorVars == <<outputHist, priorArgs, readFolder>>

ratesVars == <<apiSource, apiQuotes, rateArgs>>

balanceVars == <<transactions, balanceArgs, lookupCalls>>

converterVars == <<inputFile, apiKey, outputFiles, builtRates>>

generateVars == <<entryPoint, importTree, listing, reached, runLog, runs>>

vars == <<pc, ret, warns, runDateVars, priorVars, ratesVars, balanceVars, converterVars,
          generateVars>>

\* What the actions of one component leave alone.
exceptRunDate == <<warns, priorVars, ratesVars, balanceVars, converterVars, generateVars>>
exceptPrior == <<warns, runDateVars, ratesVars, balanceVars, converterVars, generateVars>>
exceptRates == <<warns, runDateVars, priorVars, balanceVars, converterVars, generateVars>>
exceptBalance == <<runDateVars, priorVars, ratesVars, converterVars, generateVars>>
exceptConverter == <<runDateVars, priorVars, ratesVars, balanceVars, generateVars>>

-----------------------------------------------------------------------------
(* Strings and calendar dates *)

Digits == <<"0", "1", "2", "3", "4", "5", "6", "7", "8", "9">>

IsDigit(c) == \E i \in 1..10 : Digits[i] = c

DigitVal(c) == CHOOSE v \in 0..9 : Digits[v + 1] = c

AllDigits(s) == \A i \in 1..Len(s) : IsDigit(s[i])

RECURSIVE NumVal(_)
NumVal(s) ==
    IF s = <<>> THEN 0
    ELSE 10 * NumVal(SubSeq(s, 1, Len(s) - 1)) + DigitVal(s[Len(s)])

\* None, NaN, a missing cell.
None == <<>>

\* An environment variable that is not set (os.getenv gives None).
Unset == <<"<unset>">>

\* Python truthiness of the str-or-None that os.getenv returns.
Truthy(s) == s # Unset /\ s # <<>>

\* No date: what a failed strptime stands for.
NoDate == -1

IsLeap(y) == (y % 4 = 0 /\ y % 100 # 0) \/ y % 400 = 0

DaysInMonth(y, m) ==
    IF m = 2 THEN (IF IsLeap(y) THEN 29 ELSE 28)
    ELSE IF m \in {4, 6, 9, 11} THEN 30 ELSE 31

\* A calendar date as an integer that orders as the dates do.
DateOrd(y, m, d) == (y * 12 + (m - 1)) * 31 + (d - 1)

OrdYear(o) == o \div 372
OrdMonth(o) == ((o % 372) \div 31) + 1
OrdDay(o) == (o % 31) + 1

ValidYMD(y, m, d) ==
    /\ y >= 1
    /\ m \in 1..12
    /\ d >= 1
    /\ d <= DaysInMonth(y, m)

\* datetime.strptime(s, "%Y-%m-%d"): %Y is four digits, %m and %d one or two
\* digits (%d also a space and a digit), the whole string must match and the
\* day must exist in the month.
Strptime(s) ==
    LET dashes == {i \in 1..Len(s) : s[i] = "-"} IN
    IF Cardinality(dashes) # 2 THEN NoDate
    ELSE
        LET d1 == CHOOSE i \in dashes : \A j \in dashes : i <= j
            d2 == CHOOSE i \in dashes : \A j \in dashes : j <= i
            ys == SubSeq(s, 1, d1 - 1)
            ms == SubSeq(s, d1 + 1, d2 - 1)
            ds0 == SubSeq(s, d2 + 1, Len(s))
            ds == IF Len(ds0) = 2 /\ ds0[1] = " " THEN SubSeq(ds0, 2, 2) ELSE ds0
        IN
        IF /\ Len(ys) = 4 /\ AllDigits(ys)
           /\ Len(ms) \in 1..2 /\ AllDigits(ms)
           /\ Len(ds0) \in 1..2 /\ Len(ds) >= 1 /\ AllDigits(ds)
           /\ ValidYMD(NumVal(ys), NumVal(ms), NumVal(ds))
        THEN DateOrd(NumVal(ys), NumVal(ms), NumVal(ds))
        ELSE NoDate

Pad(n, width) ==
    LET RECURSIVE Go(_, _)
        Go(k, w) == IF w = 0 THEN <<>> ELSE Go(k \div 10, w - 1) \o <<Digits[(k % 10) + 1]>>
    IN Go(n, width)

\* strftime("%Y-%m-%d") and date.isoformat().
FormatDate(o) ==
    Pad(OrdYear(o), 4) \o <<"-">> \o Pad(OrdMonth(o), 2) \o <<"-">> \o Pad(OrdDay(o), 2)

-----------------------------------------------------------------------------
(* The names and values the checks draw from *)

D_2023_12_31 == <<"2", "0", "2", "3", "-", "1", "2", "-", "3", "1">>
D_2024_01_01 == <<"2", "0", "2", "4", "-", "0", "1", "-", "0", "1">>
D_2024_1_1   == <<"2", "0", "2", "4", "-", "1", "-", "1">>
D_2024_02_01 == <<"2", "0", "2", "4", "-", "0", "2", "-", "0", "1">>
D_2024_2_1   == <<"2", "0", "2", "4", "-", "2", "-", "1">>
D_2024_02_30 == <<"2", "0", "2", "4", "-", "0", "2", "-", "3", "0">>
D_2024_03_01 == <<"2", "0", "2", "4", "-", "0", "3", "-", "0", "1">>
D_2024_10_01 == <<"2", "0", "2", "4", "-", "1", "0", "-", "0", "1">>
D_2024_9_01  == <<"2", "0", "2", "4", "-", "9", "-", "0", "1">>
S_notes      == <<"n", "o", "t", "e", "s">>
S_slashed    == <<"0", "1", "/", "0", "2", "/", "2", "0", "2", "4">>

\* Names an entry of the input root may have.
InputNames == {D_2024_01_01, D_2024_1_1, D_2024_10_01, D_2024_9_01, D_2024_02_30, S_notes}

\* Values RUN_DATE may be set to, the empty string among them.
RunDateValues == {<<>>, D_2024_02_01, D_2024_2_1, D_2024_02_30, S_slashed}

\* Values the .env file may give RUN_DATE.
DotEnvValues == {<<>>, D_2024_02_01}

\* Folders of the output root, in a fixed order that numbers them.
OutputNamesSeq == <<D_2024_01_01, D_2024_1_1, D_2024_02_01, S_notes>>
OutputNames == {OutputNamesSeq[i] : i \in 1..Len(OutputNamesSeq)}
FolderIndex(n) == CHOOSE i \in 1..Len(OutputNamesSeq) : OutputNamesSeq[i] = n

\* The run_date arguments of the prior-balance lookup; <<>> is "not given".
PriorRunDates == {<<>>, D_2024_2_1, D_2024_03_01, S_slashed}

\* Headers a balance-history file may have.
HistHeaders ==
    {{"Date", "Balance", "Original Balance", "Account"},
     {"Date", "Balance", "Original Balance"},
     {"Balance", "Original Balance", "Account"}}

\* The days of January 2024 a balance-history row may be dated.
HistDays == {9, 10}

\* The dates the rate API may quote, as it writes them.
QuoteDates == {FormatDate(DateOrd(2024, 1, d)) : d \in HistDays}

\* Pair codes a day's quotes may hold, and the rates: JSON null, zero, 0.8
\* and 1.25.
QuotePairs == {"USDGBP", "USDEUR"}
QuoteValues == {None, <<0, 1>>, <<4, 5>>, <<5, 4>>}

\* What the API may declare as its source, and the currencies a caller may
\* ask for (the empty string among them).
ApiSources == {"USD", "EUR"}
Currencies == {"", "USD", "GBP", "EUR"}

\* The transactions a frame may hold: a day of January 2024, an account and
\* an amount in cents with its amount in the original currency.
TxnDays == HistDays
TxnAccounts == {"Checking", "Savings"}
TxnAmounts == {<<1000, 802>>, <<-500, -401>>}

\* The lists of accounts build_balance_history may be given (names distinct)
\* and the rates on a day: none, 2.0 and 1.25.
AccountLists ==
    LET c == [name |-> "Checking", currency |-> "USD", starting_balance |-> 10000]
        s == [name |-> "Savings", currency |-> "GBP", starting_balance |-> 20000]
    IN {<<>>, <<c>>, <<s>>, <<c, s>>, <<s, c>>}
DayRates == {None, <<2, 1>>, <<5, 4>>}

\* Rows of the frame given to build_balance_history, at most.
MaxTxns == 3

\* Started Date cells of a checking export: two timestamps, a date without
\* a time, and text that is no date.
T_2024_01_09 == FormatDate(DateOrd(2024, 1, 9)) \o <<" ", "1", "0", ":", "1", "5", ":", "0", "0">>
T_2024_01_10 == FormatDate(DateOrd(2024, 1, 10)) \o <<" ", "2", "3", ":", "5", "9", ":", "5", "9">>
S_na         == <<"n", "/", "a">>
StartedDateCells == {T_2024_01_09, T_2024_01_10, S_na}

\* State and Currency cells of a checking export.
CheckingStates == {"COMPLETED", "PENDING", "REVERTED"}
CheckingCurrencies == {"USD", "GBP"}

\* Date cells of a savings export: two dates as the bank writes them, a day
\* the month does not have, and a date in another format.
M_Jan_9_2024  == <<"J", "a", "n", " ", "9", ",", " ", "2", "0", "2", "4">>
M_Jan_10_2024 == <<"J", "a", "n", " ", "1", "0", ",", " ", "2", "0", "2", "4">>
M_Feb_30_2024 == <<"F", "e", "b", " ", "3", "0", ",", " ", "2", "0", "2", "4">>
SavingsDateCells ==
    {M_Jan_9_2024, M_Jan_10_2024, M_Feb_30_2024, FormatDate(DateOrd(2024, 1, 9))}

\* Money in and Money out cells of a savings export, an empty cell among
\* them, and the pairs of them a row may hold.
P_10_02    == <<"£", "1", "0", ".", "0", "2">>
P_4_01     == <<"£", "4", ".", "0", "1">>
P_1_014_03 == <<" ", "£", "1", ",", "0", "1", "4", ".", "0", "3">>
P_0_5      == <<"£", "0", ".", "5">>
MoneyCells == {None, P_10_02, P_4_01, P_1_014_03, P_0_5}
MoneyPairs == {<<P_10_02, None>>, <<None, P_4_01>>, <<P_1_014_03, P_0_5>>}

\* The value of EXCHANGE_RATE_API_KEY: not set, empty, or a key.
S_key == <<"k", "e", "y">>
ApiKeyValues == {Unset, <<>>, S_key}

\* What a day of the API's answer may hold: nothing for GBP, or USDGBP 0.8.
DayQuotes == {<<>>, [p \in {"USDGBP"} |-> <<4, 5>>]}

\* Rows of the export a converter reads, at most.
MaxRows == 2

\* Files and rows written to the output root before the lookup, at most.
MaxFsOps == 4

\* Every string the model hands to strptime, parsed once.
DateStrings ==
    InputNames \cup RunDateValues \cup DotEnvValues \cup OutputNames
        \cup PriorRunDates \cup {FormatDate(DateOrd(2024, 1, d)) : d \in HistDays}

ParsedDates == [s \in DateStrings |-> Strptime(s)]

\* datetime.strptime(s, DATE_FORMAT), NoDate for the ValueError.
ParseDate(s) == ParsedDates[s]

-----------------------------------------------------------------------------
(* Results of a call *)

NoRet == [kind |-> "none", value |-> <<>>]
Ok(v) == [kind |-> "ok", value |-> v]
Raise(e) == [kind |-> e, value |-> <<>>]

-----------------------------------------------------------------------------
(* Run Context Resolver: load_env, get_latest_dated_folder, get_run_date *)

\* load_env: load_dotenv() once per process; a variable the process already
\* has is not overridden.
EnvAfterLoad(env, file, loaded) ==
    IF loaded THEN env
    ELSE IF env = Unset THEN file ELSE env

\* get_latest_dated_folder: the outcomes the directory listing order allows.
GetLatestDatedFolder(rootExists, children) ==
    IF ~rootExists THEN {Raise("FileNotFoundError")}
    ELSE
        LET candidates ==
                {<<ParseDate(n), n>> : n \in
                    {c \in DOMAIN children :
                        children[c] = "dir" /\ ParseDate(c) # NoDate}}
        IN
        IF candidates = {} THEN {Raise("FileNotFoundError")}
        ELSE {Ok(c[2]) : c \in
                {m \in candidates : \A o \in candidates : o[1] <= m[1]}}

\* A get_run_date that returns the parsed date formatted again.
GetRunDateReformatted(override, rootExists, children) ==
    IF Truthy(override) THEN
        IF ParseDate(override) = NoDate THEN {Raise("ConfigError")}
        ELSE {Ok(FormatDate(ParseDate(override)))}
    ELSE GetLatestDatedFolder(rootExists, children)

\* get_run_date after load_env: override is os.getenv("RUN_DATE").
GetRunDate(override, rootExists, children) ==
    IF Truthy(override) THEN
        IF ParseDate(override) = NoDate THEN {Raise("ConfigError")}
        ELSE {Ok(override)}
    ELSE GetLatestDatedFolder(rootExists, children)

-----------------------------------------------------------------------------
(* Prior-Balance Locator: get_latest_balance_history_value *)

\* Code points of the characters that occur in dates.
CharCode(c) ==
    IF IsDigit(c) THEN 48 + DigitVal(c)
    ELSE IF c = "-" THEN 45
    ELSE IF c = "/" THEN 47
    ELSE IF c = " " THEN 32
    ELSE 128

\* Python's str comparison a <= b.
RECURSIVE LexLeq(_, _)
LexLeq(a, b) ==
    IF a = <<>> THEN TRUE
    ELSE IF b = <<>> THEN FALSE
    ELSE IF a[1] # b[1] THEN CharCode(a[1]) < CharCode(b[1])
    ELSE LexLeq(Tail(a), Tail(b))

HistColumns == {"Date", "Balance", "Original Balance", "Account"}

\* No file of the requested name in a folder.
NoFile == [exists |-> FALSE, cols |-> {}, rows |-> <<>>]

\* The folders with a file of the requested name whose name is a date, each
\* with that date.
HistCandidates(hist) ==
    {<<ParseDate(n), n>> : n \in
        {f \in DOMAIN hist : hist[f].exists /\ ParseDate(f) # NoDate}}

\* A filter that also keeps the folder dated as the run date.
CandidatesNotAfter(candidates, run_dt) ==
    {c \in candidates : c[1] <= run_dt}

\* candidates = [c for c in candidates if c[0] < run_dt]
CandidatesBefore(candidates, run_dt) ==
    {c \in candidates : c[1] < run_dt}

\* max(candidates, key=date): with several folders of the latest date the one
\* glob lists first, which the file system decides.
LatestCandidates(candidates) ==
    {m \in candidates : \A o \in candidates : o[1] <= m[1]}

\* df[df["Account"] == account]
RowsForAccount(rows, account) ==
    SelectSeq(rows, LAMBDA r : r["Account"] = account)

\* df.sort_values("Date") on a column of strings: every order of the rows in
\* which the dates ascend (the sort is not a stable one).
SortedByDate(rows) ==
    LET n == Len(rows)
        perms == {p \in [1..n -> 1..n] :
                    /\ \A i, j \in 1..n : i # j => p[i] # p[j]
                    /\ \A i \in 1..n : i < n =>
                            LexLeq(rows[p[i]]["Date"], rows[p[i + 1]]["Date"])}
    IN {[i \in 1..n |-> rows[p[i]]] : p \in perms}

\* The first value of the column instead of the last.
FirstValueOf(rows, column) ==
    LET series == SelectSeq([i \in 1..Len(rows) |-> rows[i][column]],
                            LAMBDA v : v # None)
    IN IF series = <<>> THEN Raise("ConfigError") ELSE Ok(series[1])

\* df[column].dropna(), then float(series.iloc[-1])
LastValueOf(rows, column) ==
    LET series == SelectSeq([i \in 1..Len(rows) |-> rows[i][column]],
                            LAMBDA v : v # None)
    IN IF series = <<>> THEN Raise("ConfigError") ELSE Ok(series[Len(series)])

\* From pd.read_csv(latest_file) to the return: the outcomes the sort allows.
ReadBalance(file, column, account) ==
    IF account # "" /\ "Account" \notin file.cols THEN {Raise("ConfigError")}
    ELSE
        LET df == IF account # "" THEN RowsForAccount(file.rows, account)
                  ELSE file.rows
        IN
        IF account # "" /\ df = <<>> THEN {Raise("ConfigError")}
        ELSE IF column \notin file.cols THEN {Raise("ConfigError")}
        ELSE IF "Date" \in file.cols
             THEN {LastValueOf(sorted, column) : sorted \in SortedByDate(df)}
             ELSE {LastValueOf(df, column)}

\* A lookup that, when the latest file has nothing for the account, goes on
\* to the folders before it.
RECURSIVE LookupWithFallback(_, _, _, _)
LookupWithFallback(hist, candidates, column, account) ==
    IF candidates = {} THEN {<<Ok(None), Unset>>}
    ELSE UNION {
        LET found == ReadBalance(hist[c[2]], column, account) IN
        IF \E r \in found : r.kind = "ok"
        THEN {<<r, c[2]>> : r \in found}
        ELSE LookupWithFallback(hist, CandidatesBefore(candidates, c[1]),
                                column, account)
        : c \in LatestCandidates(candidates)}

\* latest_file = max(candidates, ...)[1]; df = pd.read_csv(latest_file); the
\* rest of the function on that one file.  Each outcome is <<result, folder
\* read>>.
LookupLatest(hist, candidates, column, account) ==
    UNION {{<<r, c[2]>> : r \in ReadBalance(hist[c[2]], column, account)} :
            c \in LatestCandidates(candidates)}

\* get_latest_balance_history_value(output_root, filename, run_date, column,
\* account); run_date and account are "" when not given.
GetLatestBalanceHistoryValue(hist, run_date, column, account) ==
    LET candidates == HistCandidates(hist) IN
    IF candidates = {} THEN {<<Ok(None), Unset>>}
    ELSE IF run_date # <<>> /\ ParseDate(run_date) = NoDate
    THEN {<<Raise("ConfigError"), Unset>>}
    ELSE
        LET kept == IF run_date # <<>>
                    THEN CandidatesBefore(candidates, ParseDate(run_date))
                    ELSE candidates
        IN
        IF kept = {} THEN {<<Ok(None), Unset>>}
        ELSE LookupLatest(hist, kept, column, account)

-----------------------------------------------------------------------------
(* Exact fractions: a float is <<numerator, denominator>>, denominator > 0 *)

RECURSIVE Gcd(_, _)
Gcd(a, b) == IF b = 0 THEN a ELSE Gcd(b, a % b)

Abs(n) == IF n < 0 THEN -n ELSE n

Rat(n, d) ==
    LET g == Gcd(Abs(n), Abs(d))
        sign == IF d < 0 THEN -1 ELSE 1
    IN <<(sign * n) \div g, (sign * d) \div g>>

RatOne == <<1, 1>>

RatMul(a, b) == Rat(a[1] * b[1], a[2] * b[2])

-----------------------------------------------------------------------------
(* Rate Table Builder: build_usd_rates, build_usd_rate_series *)

\* target_currency, which every caller leaves at its default.
TargetCurrency == "USD"

\* daily_quotes.get(quote_key): None for a pair the day does not quote.
QuoteOf(daily_quotes, quote_key) ==
    IF quote_key \in DOMAIN daily_quotes THEN daily_quotes[quote_key] ELSE None

\* `if rate:` : neither None nor zero.
QuoteTruthy(rate) == rate # None /\ rate[1] # 0

\* A rate that is the quote itself, not inverted.
RateUninverted(rate) == rate

\* 1 / rate
RateFromQuote(rate) == Rat(rate[2], rate[1])

\* build_usd_rates: the table (date, currency) -> multiplier, or RuntimeError.
BuildUsdRates(quotes_by_date, source_currency, currencies) ==
    IF source_currency # TargetCurrency THEN Raise("RuntimeError")
    ELSE
        LET normalized == {c \in currencies : c # ""}
            keys == {k \in (DOMAIN quotes_by_date) \X normalized :
                        \/ k[2] = TargetCurrency
                        \/ QuoteTruthy(QuoteOf(quotes_by_date[k[1]],
                                               source_currency \o k[2]))}
        IN Ok([k \in keys |->
                IF k[2] = TargetCurrency THEN RatOne
                ELSE RateFromQuote(QuoteOf(quotes_by_date[k[1]],
                                           source_currency \o k[2]))])

\* build_usd_rate_series: the table date -> multiplier of one currency, or
\* RuntimeError.
BuildUsdRateSeries(quotes_by_date, source_currency, currency) ==
    IF source_currency # TargetCurrency THEN Raise("RuntimeError")
    ELSE
        LET keys == {d \in DOMAIN quotes_by_date :
                        \/ currency = TargetCurrency
                        \/ QuoteTruthy(QuoteOf(quotes_by_date[d],
                                               source_currency \o currency))}
        IN Ok([d \in keys |->
                IF currency = TargetCurrency THEN RatOne
                ELSE RateFromQuote(QuoteOf(quotes_by_date[d],
                                           source_currency \o currency))])

RatesInit ==
    /\ apiSource = "USD"
    /\ apiQuotes = <<>>
    /\ rateArgs = {}

-----------------------------------------------------------------------------
(* Balance History Builder: build_balance_history *)

\* AccountConfig(name, currency, starting_balance)
AccountConfig(name, currency, starting_balance) ==
    [name |-> name, currency |-> currency, starting_balance |-> starting_balance]

\* Python's str order on the account names of the model.
AccountNameOrder == <<"Checking", "Revolut Checking", "Revolut Savings", "Savings">>
NameRank(name) ==
    CHOOSE i \in 1..Len(AccountNameOrder) : AccountNameOrder[i] = name

\* round(x, 2) of the exact fraction num / den of cents: the nearest integer
\* number of cents, a tie going to the even one.
RoundCents(num, den) ==
    LET fl == num \div den
        rem == num - fl * den
    IN IF 2 * rem < den THEN fl
       ELSE IF 2 * rem > den THEN fl + 1
       ELSE IF fl % 2 = 0 THEN fl ELSE fl + 1

\* round(amount * rate, 2)
ConvertCents(cents, rate) == RoundCents(cents * rate[1], rate[2])

\* rate_lookup(date_str, currency) over the table behind it: None without an
\* entry.
RateLookup(rates, date_str, currency) ==
    IF <<date_str, currency>> \in DOMAIN rates THEN rates[<<date_str, currency>>]
    ELSE None

\* A row of the balance history.
BalanceRow(date, balance, original, name) ==
    [c \in HistColumns |->
        IF c = "Date" THEN date
        ELSE IF c = "Balance" THEN balance
        ELSE IF c = "Original Balance" THEN original
        ELSE name]

\* transactions[transactions["Account"] == account.name]
AccountTxns(txns, name) == SelectSeq(txns, LAMBDA t : t["Account"] = name)

\* The values of a set of dates in ascending order.
RECURSIVE SortedDates(_)
SortedDates(S) ==
    IF S = {} THEN <<>>
    ELSE LET m == CHOOSE x \in S : \A y \in S : x <= y
         IN <<m>> \o SortedDates(S \ {m})

\* The sum of a column over the rows of one date.
RECURSIVE SumOnDate(_, _, _)
SumOnDate(txns, date, column) ==
    IF txns = <<>> THEN 0
    ELSE (IF Head(txns)["Date"] = date THEN Head(txns)[column] ELSE 0)
            + SumOnDate(Tail(txns), date, column)

\* groupby("Date", as_index=False)[column].sum().sort_values("Date")
DailySums(txns, column) ==
    LET dates == SortedDates({txns[i]["Date"] : i \in 1..Len(txns)})
    IN [k \in 1..Len(dates) |->
            [Date |-> dates[k], Sum |-> SumOnDate(txns, dates[k], column)]]

\* Series.cumsum()
RECURSIVE CumSum(_)
CumSum(daily) ==
    IF daily = <<>> THEN <<>>
    ELSE LET before == CumSum(SubSeq(daily, 1, Len(daily) - 1))
         IN Append(before,
                   (IF before = <<>> THEN 0 ELSE before[Len(before)])
                        + daily[Len(daily)].Sum)

\* The branch of an account in the target currency, summing Original Amount.
UsdAccountRowsFromOriginal(acc_txns, account) ==
    LET daily == DailySums(acc_txns, "Original Amount")
        cum == CumSum(daily)
    IN [k \in 1..Len(daily) |->
            BalanceRow(daily[k].Date,
                       <<cum[k] + account.starting_balance>>,
                       <<cum[k] + account.starting_balance>>,
                       account.name)]

\* The branch of an account in the target currency: Balance is the running
\* sum of Amount plus the starting balance, Original Balance the same.
UsdAccountRows(acc_txns, account) ==
    LET daily == DailySums(acc_txns, "Amount")
        cum == CumSum(daily)
    IN [k \in 1..Len(daily) |->
            BalanceRow(daily[k].Date,
                       <<cum[k] + account.starting_balance>>,
                       <<cum[k] + account.starting_balance>>,
                       account.name)]

\* convert_to_usd(row): None, with a warning, when rate_lookup has no rate.
ConvertToUsd(date, original_balance, currency, rates) ==
    LET rate == RateLookup(rates, FormatDate(date), currency)
    IN IF rate = None THEN None ELSE <<ConvertCents(original_balance, rate)>>

\* The other branch with Balance as a running sum of each day's converted
\* amount.
ForeignAccountRowsRunningConverted(acc_txns, account, rates) ==
    LET daily == DailySums(acc_txns, "Original Amount")
        cum == CumSum(daily)
        conv == [k \in 1..Len(daily) |->
                    ConvertToUsd(daily[k].Date, daily[k].Sum, account.currency, rates)]
        run == CumSum([k \in 1..Len(daily) |->
                    [Sum |-> IF conv[k] = None THEN 0 ELSE conv[k][1]]])
    IN [k \in 1..Len(daily) |->
            BalanceRow(daily[k].Date,
                       IF conv[k] = None THEN None
                       ELSE <<run[k] + ConvertCents(account.starting_balance,
                                    RateLookup(rates, FormatDate(daily[k].Date),
                                               account.currency))>>,
                       <<cum[k] + account.starting_balance>>,
                       account.name)]

\* The other branch: Original Balance is the running sum of Original Amount
\* plus the starting balance, Balance that day's Original Balance converted.
ForeignAccountRows(acc_txns, account, rates) ==
    LET daily == DailySums(acc_txns, "Original Amount")
        cum == CumSum(daily)
    IN [k \in 1..Len(daily) |->
            BalanceRow(daily[k].Date,
                       ConvertToUsd(daily[k].Date,
                                    cum[k] + account.starting_balance,
                                    account.currency, rates),
                       <<cum[k] + account.starting_balance>>,
                       account.name)]

\* The rows of one account, none when it has no transaction.
AccountRows(txns, account, rates) ==
    LET acc_txns == AccountTxns(txns, account.name)
    IN IF acc_txns = <<>> THEN <<>>
       ELSE IF account.currency = TargetCurrency
       THEN UsdAccountRows(acc_txns, account)
       ELSE ForeignAccountRows(acc_txns, account, rates)

\* pd.concat(balance_frames): the accounts' rows in the order of the accounts.
RECURSIVE ConcatFrames(_, _, _)
ConcatFrames(txns, accounts, rates) ==
    IF accounts = <<>> THEN <<>>
    ELSE AccountRows(txns, Head(accounts), rates)
            \o ConcatFrames(txns, Tail(accounts), rates)

\* row a sorts before row b by (Account, Date).
RowBefore(a, b) ==
    \/ NameRank(a["Account"]) < NameRank(b["Account"])
    \/ a["Account"] = b["Account"] /\ a["Date"] < b["Date"]

\* A final frame left in the order of the concatenation.
LeftUnsorted(rows) == rows

\* final.sort_values(["Account", "Date"]); no two rows tie when the accounts
\* have distinct names.
SortFinal(rows) ==
    LET n == Len(rows)
        p == CHOOSE q \in [1..n -> 1..n] :
                /\ \A i, j \in 1..n : i # j => q[i] # q[j]
                /\ \A i \in 1..n : i < n => ~RowBefore(rows[q[i + 1]], rows[q[i]])
    IN [i \in 1..n |-> rows[p[i]]]

\* final["Date"].dt.strftime("%Y-%m-%d")
FormatDates(rows) ==
    [i \in 1..Len(rows) |-> [rows[i] EXCEPT !["Date"] = FormatDate(@)]]

\* Whether any account appended a frame.
AnyFrame(txns, accounts) ==
    \E i \in 1..Len(accounts) : AccountTxns(txns, accounts[i].name) # <<>>

\* build_balance_history(transactions, accounts, rate_lookup)
BuildBalanceHistory(txns, accounts, rates) ==
    IF ~AnyFrame(txns, accounts) THEN Raise("RuntimeError")
    ELSE Ok(FormatDates(SortFinal(ConcatFrames(txns, accounts, rates))))

\* The calls of rate_lookup it makes: one for each day of each account that
\* is not in the target currency, in the order made.
RECURSIVE BalanceLookups(_, _)
BalanceLookups(txns, accounts) ==
    IF accounts = <<>> THEN <<>>
    ELSE LET account == Head(accounts)
             daily == DailySums(AccountTxns(txns, account.name), "Original Amount")
         IN (IF account.currency = TargetCurrency THEN <<>>
             ELSE [k \in 1..Len(daily) |->
                    <<FormatDate(daily[k].Date), account.currency>>])
                \o BalanceLookups(txns, Tail(accounts))

\* WARN: No exchange rate for {date_str} {currency}, skipping...
NoRateWarning(date_str, currency) ==
    [warn |-> "no exchange rate", date |-> date_str, currency |-> currency]

\* The warnings convert_to_usd prints: one for each call that found no rate.
BalanceWarnings(txns, accounts, rates) ==
    LET calls == BalanceLookups(txns, accounts)
        missed == SelectSeq(calls, LAMBDA c : RateLookup(rates, c[1], c[2]) = None)
    IN [i \in 1..Len(missed) |-> NoRateWarning(missed[i][1], missed[i][2])]

BalanceInit ==
    /\ transactions = <<>>
    /\ balanceArgs = [accounts |-> <<>>, rates |-> <<>>]
    /\ lookupCalls = <<>>

-----------------------------------------------------------------------------
(* Transaction Normalizers: what the two converters share *)

MonarchColumns ==
    {"Date", "Merchant", "Category", "Account", "Original Statement", "Notes",
     "Amount", "Original Amount", "Tags"}

\* monarch_row
MonarchRow(date_str, description, account, amount_usd, amount_original) ==
    [c \in MonarchColumns |->
        IF c = "Date" THEN date_str
        ELSE IF c \in {"Merchant", "Original Statement"} THEN description
        ELSE IF c = "Account" THEN <<account>>
        ELSE IF c = "Amount" THEN <<amount_usd>>
        ELSE IF c = "Original Amount" THEN <<amount_original>>
        ELSE <<>>]

\* An import file of the output folder.
NoImport == [exists |-> FALSE, rows |-> <<>>]
Written(rows) == [exists |-> TRUE, rows |-> rows]

\* No rate table: the run did not get to build one.
NoRates == [built |-> FALSE, table |-> <<>>]
Built(table) == [built |-> TRUE, table |-> table]

\* require_api_key
RequireApiKey(api_key) ==
    IF Truthy(api_key) THEN Ok(api_key) ELSE Raise("ConfigError")

\* df["Date"].min() and .max(): nan, here NoDate, on a frame without rows.
MinDate(df) ==
    IF df = <<>> THEN NoDate
    ELSE LET dates == {df[i]["Date"] : i \in 1..Len(df)}
         IN CHOOSE x \in dates : \A y \in dates : x <= y
MaxDate(df) ==
    IF df = <<>> THEN NoDate
    ELSE LET dates == {df[i]["Date"] : i \in 1..Len(df)}
         IN CHOOSE x \in dates : \A y \in dates : y <= x

\* fetch_timeframe_quotes over the answer of the API: a float nan has no
\* isoformat; the request may fail; the answer may report no success or
\* hold no quotes.
FetchTimeframeQuotes(start_date, end_date, response) ==
    IF start_date = NoDate \/ end_date = NoDate THEN Raise("AttributeError")
    ELSE IF response.kind = "request_failed" THEN Raise("RequestException")
    ELSE IF response.kind \in {"not_success", "no_quotes"} THEN Raise("RuntimeError")
    ELSE Ok([source |-> response.source, quotes |-> response.quotes])

\* The frame with a Date column added.
WithDate(row, date) ==
    [c \in (DOMAIN row) \cup {"Date"} |-> IF c = "Date" THEN date ELSE row[c]]

-----------------------------------------------------------------------------
(* checking_transaction_converter.main *)

CheckingOutput == "checking_transaction_import.csv"
CheckingAccount == "Revolut Checking"

\* HH:MM:SS
IsClockTime(t) ==
    /\ Len(t) = 8
    /\ t[3] = ":" /\ t[6] = ":"
    /\ \A i \in {1, 2, 4, 5, 7, 8} : IsDigit(t[i])
    /\ NumVal(SubSeq(t, 1, 2)) < 24
    /\ NumVal(SubSeq(t, 4, 5)) < 60
    /\ NumVal(SubSeq(t, 7, 8)) < 60

\* pd.to_datetime(cell, errors="coerce") followed by .dt.date: the day of a
\* date, or of a date and a time of day; NoDate for NaT.
ToDatetimeDate(s) ==
    LET spaces == {i \in 1..Len(s) : s[i] = " "} IN
    IF spaces = {} THEN Strptime(s)
    ELSE LET sp == CHOOSE i \in spaces : \A j \in spaces : i <= j
         IN IF IsClockTime(SubSeq(s, sp + 1, Len(s)))
            THEN Strptime(SubSeq(s, 1, sp - 1))
            ELSE NoDate

StartedDates == [s \in StartedDateCells |-> ToDatetimeDate(s)]

\* df[df["State"].isin(["COMPLETED", "PENDING"])]
FilterState(df) ==
    SelectSeq(df, LAMBDA row : row["State"] \in {"COMPLETED", "PENDING"})

\* The Started Date column parsed, the rows it is NaT on dropped, the Date
\* column added.
CheckingDated(df) ==
    LET kept == SelectSeq(df, LAMBDA row : StartedDates[row["Started Date"]] # NoDate)
    IN [i \in 1..Len(kept) |->
            WithDate(kept[i], StartedDates[kept[i]["Started Date"]])]

\* sorted(df["Currency"].dropna().unique())
CheckingCurrenciesOf(df) == {df[i]["Currency"] : i \in 1..Len(df)} \ {""}

\* The loop over the rows in the way of the savings converter: a row
\* without a rate is passed over.
RECURSIVE CheckingLoopSkipping(_, _)
CheckingLoopSkipping(df, rates) ==
    IF df = <<>> THEN Ok(<<>>)
    ELSE
        LET row == Head(df)
            date_str == FormatDate(row["Date"])
            rest == CheckingLoopSkipping(Tail(df), rates)
        IN IF <<date_str, row["Currency"]>> \notin DOMAIN rates THEN rest
           ELSE Ok(<<MonarchRow(date_str, row["Description"], CheckingAccount,
                          ConvertCents(row["Amount"],
                                       rates[<<date_str, row["Currency"]>>]),
                          row["Amount"])>> \o rest.value)

\* The loop over the rows: ValueError at the first row without a rate,
\* otherwise the output rows.
RECURSIVE CheckingLoop(_, _)
CheckingLoop(df, rates) ==
    IF df = <<>> THEN Ok(<<>>)
    ELSE
        LET row == Head(df)
            date_str == FormatDate(row["Date"])
        IN IF <<date_str, row["Currency"]>> \notin DOMAIN rates
           THEN Raise("ValueError")
           ELSE
            LET rest == CheckingLoop(Tail(df), rates)
            IN IF rest.kind # "ok" THEN rest
               ELSE Ok(<<MonarchRow(date_str, row["Description"], CheckingAccount,
                              ConvertCents(row["Amount"],
                                           rates[<<date_str, row["Currency"]>>]),
                              row["Amount"])>> \o rest.value)

\* main of the checking converter from the outcome of resolving the run
\* date and the input file: what it raises or returns, the rate table it
\* built and the output file it leaves.
CheckingMainOutcome(context, file, api_key, response, output) ==
    LET failed(e) == [ret |-> e, rates |-> NoRates, output |-> output]
        df == CheckingDated(FilterState(file))
        key == RequireApiKey(api_key)
        fetched == FetchTimeframeQuotes(MinDate(df), MaxDate(df), response)
    IN
    IF context.kind # "ok" THEN failed(context)
    ELSE IF key.kind # "ok" THEN failed(key)
    ELSE IF fetched.kind # "ok" THEN failed(fetched)
    ELSE
        LET rates == BuildUsdRates(fetched.value.quotes, fetched.value.source,
                                   CheckingCurrenciesOf(df))
        IN IF rates.kind # "ok" THEN failed(rates)
           ELSE
            LET rows == CheckingLoop(df, rates.value)
            IN IF rows.kind # "ok"
               THEN [ret |-> rows, rates |-> Built(rates.value), output |-> output]
               ELSE [ret |-> Ok(<<>>), rates |-> Built(rates.value),
                     output |-> Written(rows.value)]

-----------------------------------------------------------------------------
(* parse_money_amount and savings_transaction_converter.main *)

SavingsOutput == "savings_transaction_import.csv"
SavingsAccount == "Revolut Savings"
SourceCurrency == "GBP"

\* str.replace(old, ""): the text without a character.
Without(text, char) == SelectSeq(text, LAMBDA c : c # char)

\* str.strip(): the text without the blanks at its ends.
RECURSIVE Strip(_)
Strip(text) ==
    IF text = <<>> THEN text
    ELSE IF Head(text) = " " THEN Strip(Tail(text))
    ELSE IF text[Len(text)] = " " THEN Strip(SubSeq(text, 1, Len(text) - 1))
    ELSE text

\* float(text) in cents, of digits with at most one point and an optional
\* sign; ValueError for other text.
FloatCents(text) ==
    LET negative == text # <<>> /\ Head(text) = "-"
        body == IF text # <<>> /\ Head(text) \in {"-", "+"} THEN Tail(text) ELSE text
        points == {i \in 1..Len(body) : body[i] = "."}
        whole == IF points = {} THEN body
                 ELSE SubSeq(body, 1, (CHOOSE i \in points : TRUE) - 1)
        frac == IF points = {} THEN <<>>
                ELSE SubSeq(body, (CHOOSE i \in points : TRUE) + 1, Len(body))
        cents == NumVal(whole) * 100
                    + (IF Len(frac) = 0 THEN 0
                       ELSE IF Len(frac) = 1 THEN NumVal(frac) * 10
                       ELSE NumVal(SubSeq(frac, 1, 2)))
    IN IF \/ Cardinality(points) > 1
          \/ Len(whole) + Len(frac) = 0
          \/ ~AllDigits(whole) \/ ~AllDigits(frac)
          \/ (Len(frac) > 2 /\ \E i \in 3..Len(frac) : frac[i] # "0")
       THEN Raise("ValueError")
       ELSE Ok(IF negative THEN 0 - cents ELSE cents)

\* parse_money_amount(value, symbol) in cents: 0.0 for None, NaN and a cell
\* that is blank once the symbol and the commas are removed.
ParseMoneyAmount(value, symbol) ==
    IF value = None THEN Ok(0)
    ELSE LET text == Strip(Without(Without(value, symbol), ","))
         IN IF text = <<>> THEN Ok(0) ELSE FloatCents(text)

MonthNames ==
    << <<"J", "a", "n">>, <<"F", "e", "b">>, <<"M", "a", "r">>, <<"A", "p", "r">>,
       <<"M", "a", "y">>, <<"J", "u", "n">>, <<"J", "u", "l">>, <<"A", "u", "g">>,
       <<"S", "e", "p">>, <<"O", "c", "t">>, <<"N", "o", "v">>, <<"D", "e", "c">> >>

\* pd.to_datetime(cell, format="%b %d, %Y", errors="coerce").dt.date; NoDate
\* for NaT.
StrptimeMonthDayYear(s) ==
    LET commas == {i \in 1..Len(s) : s[i] = ","} IN
    IF Len(s) < 11 \/ Cardinality(commas) # 1 THEN NoDate
    ELSE
        LET c == CHOOSE i \in commas : TRUE
            mon == SubSeq(s, 1, 3)
            ds == SubSeq(s, 5, c - 1)
            ys == SubSeq(s, c + 2, Len(s))
        IN IF /\ \E m \in 1..12 : MonthNames[m] = mon
              /\ s[4] = " "
              /\ c < Len(s) /\ s[c + 1] = " "
              /\ Len(ds) \in {1, 2} /\ AllDigits(ds)
              /\ Len(ys) = 4 /\ AllDigits(ys)
              /\ ValidYMD(NumVal(ys), CHOOSE m \in 1..12 : MonthNames[m] = mon,
                          NumVal(ds))
           THEN DateOrd(NumVal(ys), CHOOSE m \in 1..12 : MonthNames[m] = mon,
                        NumVal(ds))
           ELSE NoDate

SavingsDates == [s \in SavingsDateCells |-> StrptimeMonthDayYear(s)]
MoneyAmounts == [s \in MoneyCells |-> ParseMoneyAmount(s, "£")]

\* The Date column parsed and the rows it is missing on dropped.
SavingsDated(df) ==
    LET kept == SelectSeq(df, LAMBDA row : SavingsDates[row["Date"]] # NoDate)
    IN [i \in 1..Len(kept) |-> WithDate(kept[i], SavingsDates[kept[i]["Date"]])]

\* The first error of parsing the money columns, if any.
MoneyError(df) ==
    LET bad == {i \in 1..Len(df) :
                    \/ MoneyAmounts[df[i]["Money in"]].kind # "ok"
                    \/ MoneyAmounts[df[i]["Money out"]].kind # "ok"}
    IN IF bad = {} THEN Ok(<<>>) ELSE Raise("ValueError")

\* The money columns parsed and Amount = Money in - Money out added.
WithAmount(df) ==
    [i \in 1..Len(df) |->
        [c \in (DOMAIN df[i]) \cup {"Amount"} |->
            IF c = "Amount"
            THEN MoneyAmounts[df[i]["Money in"]].value
                    - MoneyAmounts[df[i]["Money out"]].value
            ELSE df[i][c]]]

\* The loop over the rows leaving at the first row without a rate.
RECURSIVE SavingsLoopStopping(_, _)
SavingsLoopStopping(df, rates) ==
    IF df = <<>> THEN [rows |-> <<>>, warns |-> <<>>]
    ELSE
        LET row == Head(df)
            date_str == FormatDate(row["Date"])
        IN IF <<date_str, SourceCurrency>> \notin DOMAIN rates
           THEN [rows |-> <<>>, warns |-> <<NoRateWarning(date_str, SourceCurrency)>>]
           ELSE
            LET rest == SavingsLoopStopping(Tail(df), rates)
            IN [rows |-> <<MonarchRow(date_str, row["Description"], SavingsAccount,
                              ConvertCents(row["Amount"],
                                           rates[<<date_str, SourceCurrency>>]),
                              row["Amount"])>> \o rest.rows,
                warns |-> rest.warns]

\* The loop over the rows: a row without a rate is passed over with a
\* warning; the output rows and the warnings printed.
RECURSIVE SavingsLoop(_, _)
SavingsLoop(df, rates) ==
    IF df = <<>> THEN [rows |-> <<>>, warns |-> <<>>]
    ELSE
        LET row == Head(df)
            date_str == FormatDate(row["Date"])
            rest == SavingsLoop(Tail(df), rates)
        IN IF <<date_str, SourceCurrency>> \notin DOMAIN rates
           THEN [rows |-> rest.rows,
                 warns |-> <<NoRateWarning(date_str, SourceCurrency)>> \o rest.warns]
           ELSE [rows |-> <<MonarchRow(date_str, row["Description"], SavingsAccount,
                              ConvertCents(row["Amount"],
                                           rates[<<date_str, SourceCurrency>>]),
                              row["Amount"])>> \o rest.rows,
                 warns |-> rest.warns]

\* main of the savings converter from the outcome of resolving the run date
\* and the input file: what it raises or returns, the rate table it built,
\* the output file it leaves and the warnings it prints.
SavingsMainOutcome(context, file, api_key, response, output) ==
    LET failed(e) == [ret |-> e, rates |-> NoRates, output |-> output, warns |-> <<>>]
        dated == SavingsDated(file)
        money == MoneyError(dated)
        key == RequireApiKey(api_key)
        fetched == FetchTimeframeQuotes(MinDate(dated), MaxDate(dated), response)
    IN
    IF context.kind # "ok" THEN failed(context)
    ELSE IF money.kind # "ok" THEN failed(money)
    ELSE IF key.kind # "ok" THEN failed(key)
    ELSE IF fetched.kind # "ok" THEN failed(fetched)
    ELSE
        LET rates == BuildUsdRates(fetched.value.quotes, fetched.value.source,
                                   {SourceCurrency})
        IN IF rates.kind # "ok" THEN failed(rates)
           ELSE
            LET loop == SavingsLoop(WithAmount(dated), rates.value)
            IN [ret |-> Ok(<<>>), rates |-> Built(rates.value),
                output |-> Written(loop.rows), warns |-> loop.warns]

-----------------------------------------------------------------------------
(* load_monarch_transactions *)

ImportNames == <<CheckingOutput, SavingsOutput>>

\* input_root.glob("**/*_import.csv"): the import files and the
\* balance-history files of the tree, which the pattern matches too, folder
\* by folder in the order of the listing.
RECURSIVE GlobImportFiles(_, _, _)
GlobImportFiles(order, imports, hist) ==
    IF order = <<>> THEN <<>>
    ELSE LET folder == Head(order)
             here == [i \in 1..Len(ImportNames) |->
                        [kind |-> "import", cols |-> MonarchColumns,
                         rows |-> imports[folder][ImportNames[i]].rows,
                         exists |-> imports[folder][ImportNames[i]].exists]]
                     \o <<[kind |-> "history", cols |-> hist[folder].cols,
                           rows |-> hist[folder].rows,
                           exists |-> hist[folder].exists]>>
         IN SelectSeq(here, LAMBDA f : f.exists)
                \o GlobImportFiles(Tail(order), imports, hist)

\* pd.read_csv(file, parse_dates=["Date"]) raises: on the file without a
\* header that to_csv leaves of a frame without rows, and on a file without
\* a Date column.
Unreadable(f) ==
    IF f.kind = "import" THEN f.rows = <<>>
    ELSE "Date" \notin f.cols

\* required.issubset(df.columns)
HasRequired(f) ==
    {"Date", "Account", "Amount", "Original Amount"} \subseteq f.cols

\* A row of a transaction import file as read_csv gives it: the date
\* parsed, the account and the amounts.
LoadedRow(row) ==
    [c \in {"Date", "Account", "Amount", "Original Amount"} |->
        IF c = "Date" THEN ParseDate(row["Date"]) ELSE row[c][1]]

\* WARN: Skipping {file}: {exc}
SkippingWarning(f) ==
    [warn |-> "skipping file", date |-> <<>>, currency |-> f.kind]

\* pd.concat(frames, ignore_index=True)
RECURSIVE ConcatLoaded(_)
ConcatLoaded(files) ==
    IF files = <<>> THEN <<>>
    ELSE [i \in 1..Len(Head(files).rows) |-> LoadedRow(Head(files).rows[i])]
            \o ConcatLoaded(Tail(files))

\* load_monarch_transactions: the frame or the error, and the warnings
\* printed.
LoadMonarchTransactions(order, imports, hist) ==
    LET files == GlobImportFiles(order, imports, hist)
        bad == SelectSeq(files, Unreadable)
        frames == SelectSeq(files, LAMBDA f : ~Unreadable(f) /\ HasRequired(f))
        printed == [i \in 1..Len(bad) |-> SkippingWarning(bad[i])]
    IN IF files = <<>> THEN [ret |-> Raise("FileNotFoundError"), warns |-> <<>>]
       ELSE IF frames = <<>> THEN [ret |-> Raise("RuntimeError"), warns |-> printed]
       ELSE [ret |-> Ok(ConcatLoaded(frames)), warns |-> printed]

-----------------------------------------------------------------------------
(* generate_checking_balance_history.main and                              *)
(* generate_savings_balance_history.main                                   *)

\* OUTPUT_CSV_NAME, ACCOUNT_NAME and ACCOUNT_CURRENCY of the two entry points.
EntryPoints ==
    [checking |-> [output |-> "checking_balance_history_import.csv",
                   account |-> CheckingAccount, currency |-> "USD"],
     savings |-> [output |-> "savings_balance_history_import.csv",
                  account |-> SavingsAccount, currency |-> "GBP"]]

\* "Balance" if ACCOUNT_CURRENCY == "USD" else "Original Balance"
StartingBalanceColumn(entry) ==
    IF entry.currency = "USD" THEN "Balance" ELSE "Original Balance"

\* The place of a folder in a listing.
ListedAt(order, folder) == CHOOSE i \in 1..Len(order) : order[i] = folder

\* Of the outcomes of the lookup, those of the folder that the listing has
\* first: max() keeps the first of the candidates of the latest date.
FirstListed(outcomes, order) ==
    {o \in outcomes :
        \/ o[2] = Unset
        \/ \A p \in outcomes : ListedAt(order, o[2]) <= ListedAt(order, p[2])}

\* lambda _date_str, _currency: 1.0, at the arguments of the model.
UsdLookup == [k \in QuoteDates \X {"USD", "GBP"} |-> RatOne]

\* lambda date_str, currency: rates.get(date_str) if currency ==
\* ACCOUNT_CURRENCY else None
SeriesLookup(series, currency) ==
    [k \in {<<d, currency>> : d \in DOMAIN series} |-> series[k[1]]]

\* A starting balance that is zero when the lookup found none.
StartingBalanceOrZero(found) ==
    IF found.value = None THEN <<0>> ELSE found.value

\* starting_balance = get_latest_balance_history_value(...): what the
\* lookup returned, None included.
StartingBalance(found) == found.value

\* main of a balance-history entry point from the run date it resolved and
\* the outcome of the prior-balance lookup: what it raises or returns, the
\* balance-history files it leaves, the steps it got to and the warnings it
\* printed.
GenerateMainOutcome(entry, run_date, found, hist, imports, order, api_key, response) ==
    LET stop(e, steps, printed) ==
            [ret |-> e, hist |-> hist, reached |-> steps, warns |-> printed]
        foreign == entry.currency # TargetCurrency
        loaded == LoadMonarchTransactions(order, imports, hist)
        txns == SelectSeq(loaded.ret.value, LAMBDA t : t["Account"] = entry.account)
        key == RequireApiKey(api_key)
        fetched == FetchTimeframeQuotes(MinDate(txns), MaxDate(txns), response)
        series == BuildUsdRateSeries(fetched.value.quotes, fetched.value.source,
                                     entry.currency)
        rates == IF foreign THEN SeriesLookup(series.value, entry.currency)
                 ELSE UsdLookup
        starting_balance == StartingBalance(found)
        accounts == <<AccountConfig(entry.account, entry.currency,
                                    starting_balance[1])>>
        steps == IF foreign THEN {"lookup", "load", "fetch"} ELSE {"lookup", "load"}
    IN
    IF found.kind # "ok" THEN stop(found, {"lookup"}, <<>>)
    ELSE IF starting_balance = None
    THEN stop(Raise("RuntimeError"), {"lookup"}, <<>>)
    ELSE IF loaded.ret.kind # "ok"
    THEN stop(loaded.ret, {"lookup", "load"}, loaded.warns)
    ELSE IF txns = <<>>
    THEN stop(Raise("RuntimeError"), {"lookup", "load"}, loaded.warns)
    ELSE IF foreign /\ key.kind # "ok"
    THEN stop(key, {"lookup", "load"}, loaded.warns)
    ELSE IF foreign /\ fetched.kind # "ok" THEN stop(fetched, steps, loaded.warns)
    ELSE IF foreign /\ series.kind # "ok" THEN stop(series, steps, loaded.warns)
    ELSE
        [ret |-> Ok(<<>>),
         hist |-> [hist EXCEPT ![run_date] =
                    [exists |-> TRUE, cols |-> HistColumns,
                     rows |-> BuildBalanceHistory(txns, accounts, rates).value]],
         reached |-> steps \cup {"write"},
         warns |-> loaded.warns \o BalanceWarnings(txns, accounts, rates)]

\* No balance-history run has completed yet.
NoRun == [dates |-> <<>>, start |-> None, same |-> 0]

GenerateInit ==
    /\ entryPoint = "savings"
    /\ importTree = <<>>
    /\ listing = <<>>
    /\ reached = {}
    /\ runLog = NoRun
    /\ runs = 0

ConverterInit ==
    /\ inputFile = <<>>
    /\ apiKey = Unset
    /\ outputFiles = <<>>
    /\ builtRates = NoRates

PriorInit ==
    /\ outputHist = [n \in OutputNames |-> NoFile]
    /\ priorArgs = [run_date |-> <<>>, column |-> "", account |-> ""]
    /\ readFolder = Unset

RunDateInit ==
    /\ osEnv = Unset
    /\ dotEnv = Unset
    /\ envLoaded = FALSE
    /\ inputRootExists = FALSE
    /\ inputChildren = [n \in InputNames |-> "absent"]

\* The user exports RUN_DATE before the call.
SetOsEnv ==
    /\ pc = "setup"
    /\ \E v \in RunDateValues \cup {Unset} : osEnv' = v
    /\ UNCHANGED <<pc, ret, dotEnv, envLoaded, inputRootExists, inputChildren, exceptRunDate>>

\* The user writes RUN_DATE to the .env file.
WriteDotEnv ==
    /\ pc = "setup"
    /\ \E v \in DotEnvValues \cup {Unset} : dotEnv' = v
    /\ UNCHANGED <<pc, ret, osEnv, envLoaded, inputRootExists, inputChildren, exceptRunDate>>

\* load_env called by another helper earlier in the process.
LoadEnv ==
    /\ pc = "setup"
    /\ ~envLoaded
    /\ osEnv' = EnvAfterLoad(osEnv, dotEnv, envLoaded)
    /\ envLoaded' = TRUE
    /\ UNCHANGED <<pc, ret, dotEnv, inputRootExists, inputChildren, exceptRunDate>>

MakeInputRoot ==
    /\ pc = "setup"
    /\ ~inputRootExists
    /\ inputRootExists' = TRUE
    /\ UNCHANGED <<pc, ret, osEnv, dotEnv, envLoaded, inputChildren, exceptRunDate>>

\* A directory or a plain file appears under the input root.
MakeInputEntry ==
    /\ pc = "setup"
    /\ inputRootExists
    /\ \E n \in InputNames, k \in {"dir", "file"} :
        /\ inputChildren[n] = "absent"
        /\ inputChildren' = [inputChildren EXCEPT ![n] = k]
    /\ UNCHANGED <<pc, ret, osEnv, dotEnv, envLoaded, inputRootExists, exceptRunDate>>

CallGetRunDate ==
    /\ pc = "setup"
    /\ osEnv' = EnvAfterLoad(osEnv, dotEnv, envLoaded)
    /\ envLoaded' = TRUE
    /\ \E r \in GetRunDate(osEnv', inputRootExists, inputChildren) : ret' = r
    /\ pc' = "done"
    /\ UNCHANGED <<dotEnv, inputRootExists, inputChildren, exceptRunDate>>

InitRunDate ==
    /\ pc = "setup"
    /\ ret = NoRet
    /\ warns = <<>>
    /\ RunDateInit
    /\ PriorInit
    /\ RatesInit
    /\ BalanceInit
    /\ GenerateInit
    /\ ConverterInit

NextRunDate ==
    \/ SetOsEnv
    \/ WriteDotEnv
    \/ LoadEnv
    \/ MakeInputRoot
    \/ MakeInputEntry
    \/ CallGetRunDate

SpecRunDate == InitRunDate /\ [][NextRunDate]_vars

-----------------------------------------------------------------------------
(* The prior-balance lookup over an output root the user and earlier runs
   have filled *)

RECURSIVE SumLens(_, _)
SumLens(hist, names) ==
    IF names = {} THEN 0
    ELSE LET n == CHOOSE x \in names : TRUE
         IN Len(hist[n].rows) + SumLens(hist, names \ {n})

FsOpsUsed ==
    Cardinality({n \in OutputNames : outputHist[n].exists})
        + SumLens(outputHist, OutputNames)

\* A balance-history row: the kind says whose it is and whether its Balance
\* is missing; the values identify the folder and the row.
HistRow(cols, day, kind, folder, pos) ==
    LET v == 1000 * FolderIndex(folder) + 10 * pos IN
    [c \in HistColumns |->
        IF c \notin cols THEN (IF c = "Account" THEN "" ELSE None)
        ELSE IF c = "Date" THEN FormatDate(DateOrd(2024, 1, day))
        ELSE IF c = "Account" THEN (IF kind = "S" THEN "Savings" ELSE "Checking")
        ELSE IF c = "Balance" THEN (IF kind = "Cmissing" THEN None ELSE <<v>>)
        ELSE <<v + 1>>]

CreateHistFile ==
    /\ pc = "setup"
    /\ FsOpsUsed < MaxFsOps
    /\ \E n \in OutputNames, h \in HistHeaders :
        /\ ~outputHist[n].exists
        /\ outputHist' = [outputHist EXCEPT
                            ![n] = [exists |-> TRUE, cols |-> h, rows |-> <<>>]]
    /\ UNCHANGED <<pc, ret, priorArgs, readFolder, exceptPrior>>

AppendHistRow ==
    /\ pc = "setup"
    /\ FsOpsUsed < MaxFsOps
    /\ \E n \in OutputNames, day \in HistDays, kind \in {"C", "Cmissing", "S"} :
        /\ outputHist[n].exists
        /\ outputHist' = [outputHist EXCEPT ![n].rows =
                Append(@, HistRow(outputHist[n].cols, day, kind, n, Len(@) + 1))]
    /\ UNCHANGED <<pc, ret, priorArgs, readFolder, exceptPrior>>

CallGetLatestBalance ==
    /\ pc = "setup"
    /\ \E rd \in PriorRunDates, col \in {"Balance", "Original Balance"},
          acc \in {"", "Checking"} :
        /\ priorArgs' = [run_date |-> rd, column |-> col, account |-> acc]
        /\ \E o \in GetLatestBalanceHistoryValue(outputHist, rd, col, acc) :
            /\ ret' = o[1]
            /\ readFolder' = o[2]
    /\ pc' = "done"
    /\ UNCHANGED <<outputHist, exceptPrior>>

InitPrior ==
    /\ pc = "setup"
    /\ ret = NoRet
    /\ warns = <<>>
    /\ RunDateInit
    /\ PriorInit
    /\ RatesInit
    /\ BalanceInit
    /\ GenerateInit
    /\ ConverterInit

NextPrior ==
    \/ CreateHistFile
    \/ AppendHistRow
    \/ CallGetLatestBalance

SpecPrior == InitPrior /\ [][NextPrior]_vars

-----------------------------------------------------------------------------
(* The rate table builders over whatever the rate API answered *)

\* The response declares its source currency.
ApiSource ==
    /\ pc = "setup"
    /\ \E src \in ApiSources : apiSource' = src
    /\ UNCHANGED <<pc, ret, apiQuotes, rateArgs, exceptRates>>

\* The response quotes one more day: some pairs, each with a rate.
ApiQuotesDay ==
    /\ pc = "setup"
    /\ \E d \in QuoteDates, pairs \in SUBSET QuotePairs :
        /\ d \notin DOMAIN apiQuotes
        /\ \E daily \in [pairs -> QuoteValues] :
            apiQuotes' = [x \in (DOMAIN apiQuotes) \cup {d} |->
                            IF x = d THEN daily ELSE apiQuotes[x]]
    /\ UNCHANGED <<pc, ret, apiSource, rateArgs, exceptRates>>

CallBuildUsdRates ==
    /\ pc = "setup"
    /\ \E currencies \in SUBSET Currencies :
        /\ rateArgs' = currencies
        /\ ret' = BuildUsdRates(apiQuotes, apiSource, currencies)
    /\ pc' = "rates_done"
    /\ UNCHANGED <<apiSource, apiQuotes, exceptRates>>

CallBuildUsdRateSeries ==
    /\ pc = "setup"
    /\ \E currency \in Currencies :
        /\ rateArgs' = {currency}
        /\ ret' = BuildUsdRateSeries(apiQuotes, apiSource, currency)
    /\ pc' = "series_done"
    /\ UNCHANGED <<apiSource, apiQuotes, exceptRates>>

InitRates ==
    /\ pc = "setup"
    /\ ret = NoRet
    /\ warns = <<>>
    /\ RunDateInit
    /\ PriorInit
    /\ RatesInit
    /\ BalanceInit
    /\ GenerateInit
    /\ ConverterInit

NextRates ==
    \/ ApiSource
    \/ ApiQuotesDay
    \/ CallBuildUsdRates
    \/ CallBuildUsdRateSeries

SpecRates == InitRates /\ [][NextRates]_vars

-----------------------------------------------------------------------------
(* build_balance_history over any frame of transactions *)

Txn(day, account, amounts) ==
    [c \in {"Date", "Account", "Amount", "Original Amount"} |->
        IF c = "Date" THEN DateOrd(2024, 1, day)
        ELSE IF c = "Account" THEN account
        ELSE IF c = "Amount" THEN amounts[1]
        ELSE amounts[2]]

\* The frame has one more row.
AddTransaction ==
    /\ pc = "setup"
    /\ Len(transactions) < MaxTxns
    /\ \E day \in TxnDays, account \in TxnAccounts, amounts \in TxnAmounts :
        transactions' = Append(transactions, Txn(day, account, amounts))
    /\ UNCHANGED <<pc, ret, warns, balanceArgs, lookupCalls, exceptBalance>>

CallBuildBalanceHistory ==
    /\ pc = "setup"
    /\ \E accounts \in AccountLists, dayRates \in [QuoteDates -> DayRates] :
        LET rates == [k \in {<<d, "GBP">> : d \in
                                {x \in QuoteDates : dayRates[x] # None}} |->
                        dayRates[k[1]]]
        IN
        /\ balanceArgs' = [accounts |-> accounts, rates |-> rates]
        /\ ret' = BuildBalanceHistory(transactions, accounts, rates)
        /\ lookupCalls' = BalanceLookups(transactions, accounts)
        /\ warns' = warns \o BalanceWarnings(transactions, accounts, rates)
    /\ pc' = "balance_done"
    /\ UNCHANGED <<transactions, exceptBalance>>

InitBalance ==
    /\ pc = "setup"
    /\ ret = NoRet
    /\ warns = <<>>
    /\ RunDateInit
    /\ PriorInit
    /\ RatesInit
    /\ BalanceInit
    /\ GenerateInit
    /\ ConverterInit

NextBalance ==
    \/ AddTransaction
    \/ CallBuildBalanceHistory

SpecBalance == InitBalance /\ [][NextBalance]_vars

-----------------------------------------------------------------------------
(* A run of the checking converter over any export *)

\* The outcomes of get_run_date and input_path.
RunContexts == {Ok(D_2024_02_01), Raise("ConfigError"), Raise("FileNotFoundError")}

\* The answers of the rate API.
ApiResponses ==
    {[kind |-> k, source |-> "USD", quotes |-> <<>>] :
        k \in {"request_failed", "not_success", "no_quotes"}}
    \cup {[kind |-> "ok", source |-> "EUR", quotes |-> <<>>]}
    \cup UNION {{[kind |-> "ok", source |-> "USD", quotes |-> q] :
                    q \in [days -> DayQuotes]} : days \in SUBSET QuoteDates}

\* The amount and the description of the row at a position of the export.
AmountAt(pos) == IF pos % 2 = 1 THEN 1000 + 2 * pos ELSE 0 - (399 + pos)
DescriptionAt(pos) == <<"t", "x", "n", Digits[pos + 1]>>

\* A file an earlier run left in the output folder.
StaleImport(account) ==
    Written(<<MonarchRow(D_2023_12_31, DescriptionAt(0), account, 1, 1)>>)

CheckingRow(state, started, currency, pos) ==
    [c \in {"State", "Started Date", "Currency", "Amount", "Description"} |->
        IF c = "State" THEN state
        ELSE IF c = "Started Date" THEN started
        ELSE IF c = "Currency" THEN currency
        ELSE IF c = "Amount" THEN AmountAt(pos)
        ELSE DescriptionAt(pos)]

\* The export has one more row.
AddCheckingRow ==
    /\ pc = "setup"
    /\ Len(inputFile) < MaxRows
    /\ \E state \in CheckingStates, started \in StartedDateCells,
            currency \in CheckingCurrencies :
        inputFile' = Append(inputFile,
                        CheckingRow(state, started, currency, Len(inputFile) + 1))
    /\ UNCHANGED <<pc, ret, warns, apiKey, outputFiles, builtRates, exceptConverter>>

CheckingMain ==
    /\ pc = "setup"
    /\ \E context \in RunContexts, response \in ApiResponses :
        LET run == CheckingMainOutcome(context, inputFile, apiKey, response,
                                       outputFiles[CheckingOutput])
        IN /\ ret' = run.ret
           /\ builtRates' = run.rates
           /\ outputFiles' = [outputFiles EXCEPT ![CheckingOutput] = run.output]
    /\ pc' = "checking_done"
    /\ UNCHANGED <<warns, inputFile, apiKey, exceptConverter>>

InitChecking ==
    /\ pc = "setup"
    /\ ret = NoRet
    /\ warns = <<>>
    /\ RunDateInit
    /\ PriorInit
    /\ RatesInit
    /\ BalanceInit
    /\ GenerateInit
    /\ inputFile = <<>>
    /\ apiKey \in ApiKeyValues
    /\ outputFiles \in [{CheckingOutput} -> {NoImport, StaleImport(CheckingAccount)}]
    /\ builtRates = NoRates

NextChecking ==
    \/ AddCheckingRow
    \/ CheckingMain

SpecChecking == InitChecking /\ [][NextChecking]_vars

-----------------------------------------------------------------------------
(* A run of the savings converter over any export *)

SavingsRow(date, money, pos) ==
    [c \in {"Date", "Description", "Money in", "Money out"} |->
        IF c = "Date" THEN date
        ELSE IF c = "Description" THEN DescriptionAt(pos)
        ELSE IF c = "Money in" THEN money[1]
        ELSE money[2]]

\* The export has one more row.
AddSavingsRow ==
    /\ pc = "setup"
    /\ Len(inputFile) < MaxRows
    /\ \E date \in SavingsDateCells, money \in MoneyPairs :
        inputFile' = Append(inputFile, SavingsRow(date, money, Len(inputFile) + 1))
    /\ UNCHANGED <<pc, ret, warns, apiKey, outputFiles, builtRates, exceptConverter>>

SavingsMain ==
    /\ pc = "setup"
    /\ \E context \in RunContexts, response \in ApiResponses :
        LET run == SavingsMainOutcome(context, inputFile, apiKey, response,
                                      outputFiles[SavingsOutput])
        IN /\ ret' = run.ret
           /\ builtRates' = run.rates
           /\ outputFiles' = [outputFiles EXCEPT ![SavingsOutput] = run.output]
           /\ warns' = warns \o run.warns
    /\ pc' = "savings_done"
    /\ UNCHANGED <<inputFile, apiKey, exceptConverter>>

InitSavings ==
    /\ pc = "setup"
    /\ ret = NoRet
    /\ warns = <<>>
    /\ RunDateInit
    /\ PriorInit
    /\ RatesInit
    /\ BalanceInit
    /\ GenerateInit
    /\ inputFile = <<>>
    /\ apiKey \in ApiKeyValues
    /\ outputFiles \in [{SavingsOutput} -> {NoImport, StaleImport(SavingsAccount)}]
    /\ builtRates = NoRates

NextSavings ==
    \/ AddSavingsRow
    \/ SavingsMain

SpecSavings == InitSavings /\ [][NextSavings]_vars

-----------------------------------------------------------------------------
(* Runs of a balance-history entry point over an output root that changes *)

\* The folders of the output root, two of them of one date, and the two
\* orders in which the file system may list them.
GenFolders == <<D_2024_01_01, D_2024_1_1, D_2024_02_01, D_2024_03_01>>
GenFolderSet == {GenFolders[i] : i \in 1..Len(GenFolders)}
ListingOrders ==
    {GenFolders, [i \in 1..Len(GenFolders) |-> GenFolders[Len(GenFolders) + 1 - i]]}

\* The outcomes of get_run_date and output_dir.
GenContexts ==
    {Ok(D_2024_1_1), Ok(D_2024_02_01), Ok(D_2024_03_01), Raise("ConfigError")}

\* What the rate API quotes: the first day at 0.8, the second day not.
GenQuotes ==
    {[d \in {FormatDate(DateOrd(2024, 1, 9))} |-> [p \in {"USDGBP"} |-> <<4, 5>>]]}

\* Runs of the entry point, at most.
MaxRuns == 2

\* The folders a balance-history file is put into by hand: the two of the
\* earliest date.
SeedFolders == {D_2024_01_01, D_2024_1_1}

\* The transaction import file of the account of an entry point.
OwnImportOf(entry) ==
    IF entry = "checking" THEN CheckingOutput ELSE SavingsOutput

\* The import files converter runs leave: that of the account of the entry
\* point in the folders of three dates, that of the other account in one.
ImportSlots(entry) ==
    LET own == OwnImportOf(entry)
        other == IF entry = "checking" THEN SavingsOutput ELSE CheckingOutput
    IN ({D_2024_01_01, D_2024_02_01, D_2024_03_01} \X {own})
            \cup {<<D_2024_02_01, other>>}

\* The amount, in the original currency, of the transaction a converter
\* wrote into a folder: 1, 10, 100 or 1000.
RECURSIVE TenTo(_)
TenTo(n) == IF n = 0 THEN 1 ELSE 10 * TenTo(n - 1)
FolderAmount(folder) == TenTo(ListedAt(GenFolders, folder) - 1)

\* The import file a converter run leaves in a folder: one transaction of
\* its account, or, of the savings converter in the first folder, a file
\* of a frame without rows.
ImportContents(folder, name) ==
    LET account == IF name = CheckingOutput THEN CheckingAccount ELSE SavingsAccount
        day == IF ListedAt(GenFolders, folder) % 2 = 1 THEN 9 ELSE 10
        one == Written(<<MonarchRow(FormatDate(DateOrd(2024, 1, day)),
                            DescriptionAt(ListedAt(GenFolders, folder)), account,
                            2 * FolderAmount(folder), FolderAmount(folder))>>)
    IN IF name = SavingsOutput /\ folder = D_2024_01_01
       THEN {one, Written(<<>>)}
       ELSE {one}

\* The balance-history file of an earlier run put into a folder by hand.
SeedFile(folder, account) ==
    [exists |-> TRUE, cols |-> HistColumns,
     rows |-> <<BalanceRow(FormatDate(DateOrd(2024, 1, 10)),
                    <<20000 * ListedAt(GenFolders, folder) + 7>>,
                    <<20000 * ListedAt(GenFolders, folder)>>, account)>>]

\* A balance-history file is put into a folder by hand.
SeedHistory ==
    /\ \E f \in SeedFolders :
        /\ ~outputHist[f].exists
        /\ outputHist' = [outputHist EXCEPT
                            ![f] = SeedFile(f, EntryPoints[entryPoint].account)]
    /\ runLog' = [runLog EXCEPT !.same = 0]
    /\ UNCHANGED <<pc, ret, warns, priorArgs, readFolder, runDateVars, ratesVars,
                   balanceVars, converterVars, entryPoint, importTree, listing,
                   reached, runs>>

\* A converter run leaves its import file in the folder of its run date.
WriteImport ==
    /\ \E slot \in ImportSlots(entryPoint) :
        /\ ~importTree[slot[1]][slot[2]].exists
        /\ \E file \in ImportContents(slot[1], slot[2]) :
            importTree' = [importTree EXCEPT ![slot[1]][slot[2]] = file]
    /\ runLog' = [runLog EXCEPT !.same = 0]
    /\ UNCHANGED <<pc, ret, warns, priorVars, runDateVars, ratesVars, balanceVars,
                   converterVars, entryPoint, listing, reached, runs>>

\* The run log after a run of a date that completed from a starting
\* balance.
Logged(log, run_date, start) ==
    LET n == Len(log.dates)
        again == n > 0 /\ log.dates[n] = run_date
    IN [dates |-> IF again THEN log.dates ELSE Append(log.dates, run_date),
        start |-> IF n = 0 THEN start ELSE log.start,
        same |-> IF again /\ log.same > 0 THEN log.same + 1 ELSE 1]

GenerateMain ==
    /\ runs < MaxRuns
    /\ runs' = runs + 1
    /\ \E context \in GenContexts, answer \in {"ok", "request_failed"} :
        IF context.kind # "ok"
        THEN /\ ret' = context
             /\ reached' = {}
             /\ warns' = <<>>
             /\ UNCHANGED <<priorVars, runLog>>
        ELSE
            LET entry == EntryPoints[entryPoint]
                run_date == context.value
                column == StartingBalanceColumn(entry)
            IN
            /\ priorArgs' = [run_date |-> run_date, column |-> column,
                             account |-> entry.account]
            /\ \E found \in FirstListed(
                    GetLatestBalanceHistoryValue(outputHist, run_date, column,
                                                 entry.account), listing) :
                LET run == GenerateMainOutcome(entry, run_date, found[1], outputHist,
                                importTree, listing, apiKey,
                                [kind |-> answer, source |-> apiSource,
                                 quotes |-> apiQuotes])
                IN /\ readFolder' = found[2]
                   /\ ret' = run.ret
                   /\ outputHist' = run.hist
                   /\ reached' = run.reached
                   /\ warns' = run.warns
                   /\ runLog' = IF run.ret.kind = "ok"
                                THEN Logged(runLog, run_date, found[1].value)
                                ELSE runLog
    /\ UNCHANGED <<pc, runDateVars, ratesVars, balanceVars, converterVars,
                   entryPoint, importTree, listing>>

InitGenerate ==
    /\ pc = "run"
    /\ ret = NoRet
    /\ warns = <<>>
    /\ RunDateInit
    /\ BalanceInit
    /\ outputHist = [f \in GenFolderSet |-> NoFile]
    /\ priorArgs = [run_date |-> <<>>, column |-> "", account |-> ""]
    /\ readFolder = Unset
    /\ apiSource = "USD"
    /\ apiQuotes \in GenQuotes
    /\ rateArgs = {}
    /\ inputFile = <<>>
    /\ apiKey = S_key
    /\ outputFiles = <<>>
    /\ builtRates = NoRates
    /\ entryPoint \in {"checking", "savings"}
    /\ importTree = [f \in GenFolderSet |->
                        [n \in {CheckingOutput, SavingsOutput} |-> NoImport]]
    /\ listing \in ListingOrders
    /\ reached = {}
    /\ runLog = NoRun
    /\ runs = 0

NextGenerate ==
    \/ SeedHistory
    \/ WriteImport
    \/ GenerateMain

SpecGenerate == InitGenerate /\ [][NextGenerate]_vars

-----------------------------------------------------------------------------
(* C1 *)

\* The dated subdirectories of the input root.
DatedInputDirs ==
    {n \in InputNames : inputChildren[n] = "dir" /\ ParseDate(n) # NoDate}

\* What the folder scan must give: a not-found error without a dated
\* subdirectory, else the name of one no other is later than.
ScanResultRight ==
    IF ~inputRootExists \/ DatedInputDirs = {}
    THEN ret.kind = "FileNotFoundError"
    ELSE /\ ret.kind = "ok"
         /\ ret.value \in DatedInputDirs
         /\ \A n \in DatedInputDirs : ParseDate(n) <= ParseDate(ret.value)

\* C1 as stated: after get_run_date, with RUN_DATE set (to anything, the empty
\* string included) and parsing the result is the override itself; set and not
\* parsing it is ConfigError; not set it is the latest dated subdirectory or a
\* not-found error.
C1_AsStated ==
    pc = "done" =>
        /\ (osEnv # Unset /\ ParseDate(osEnv) # NoDate) => ret = Ok(osEnv)
        /\ (osEnv # Unset /\ ParseDate(osEnv) = NoDate) => ret.kind = "ConfigError"
        /\ (osEnv = Unset) => ScanResultRight

\* C1 amended: a RUN_DATE that is set to the empty string counts as not set.
C1_RunDate ==
    pc = "done" =>
        /\ (Truthy(osEnv) /\ ParseDate(osEnv) # NoDate) => ret = Ok(osEnv)
        /\ (Truthy(osEnv) /\ ParseDate(osEnv) = NoDate) => ret.kind = "ConfigError"
        /\ ~Truthy(osEnv) => ScanResultRight

\* RUN_DATE was set to the empty string and the scan returned 2024-10-01, the
\* latest date, although 2024-9-01 is the greater string.
C1_Witness ==
    /\ pc = "done"
    /\ osEnv = <<>>
    /\ inputChildren[D_2024_9_01] = "dir"
    /\ ret = Ok(D_2024_10_01)

-----------------------------------------------------------------------------
(* C2, C3 *)

\* The folders a lookup with the given run date may use: they hold the file,
\* their name is a date, and the date is before the run date.
FoldersBefore(run_date) ==
    {n \in OutputNames :
        /\ outputHist[n].exists
        /\ ParseDate(n) # NoDate
        /\ ParseDate(n) < ParseDate(run_date)}

\* The latest of them (several when two names spell the same date).
LatestFoldersBefore(run_date) ==
    LET before == FoldersBefore(run_date)
    IN {n \in before : \A g \in before : ParseDate(g) <= ParseDate(n)}

\* v is the value of the column in a row of the account that has one, and no
\* row of the account that has one is dated later.
IsLastValueInDateOrder(file, column, account, v) ==
    \E i \in 1..Len(file.rows) :
        /\ file.rows[i]["Account"] = account
        /\ file.rows[i][column] = v
        /\ v # None
        /\ \A j \in 1..Len(file.rows) :
            (file.rows[j]["Account"] = account /\ file.rows[j][column] # None)
                => ParseDate(file.rows[j]["Date"]) <= ParseDate(file.rows[i]["Date"])

\* C2: a value returned by a lookup with a run date was read in a folder
\* dated before the run date that no other such folder is later than, and it
\* is the last non-missing value of the column among the account's rows of
\* that file in ascending Date order.
C2_PriorValue ==
    (/\ pc = "done"
     /\ priorArgs.run_date # <<>>
     /\ ret.kind = "ok"
     /\ ret.value # None)
    =>
        /\ readFolder \in LatestFoldersBefore(priorArgs.run_date)
        /\ (priorArgs.account # "" /\ "Date" \in outputHist[readFolder].cols)
            => IsLastValueInDateOrder(outputHist[readFolder], priorArgs.column,
                                      priorArgs.account, ret.value)

\* The run date 2024-2-1 left the folder 2024-02-01 out, and the value came
\* from the first row of the file in 2024-01-01, whose date is the later one.
C2_Witness ==
    /\ pc = "done"
    /\ priorArgs.run_date = D_2024_2_1
    /\ priorArgs.account = "Checking"
    /\ outputHist[D_2024_02_01].exists
    /\ readFolder = D_2024_01_01
    /\ Len(outputHist[D_2024_01_01].rows) = 2
    /\ "Date" \in outputHist[D_2024_01_01].cols
    /\ ret.kind = "ok"
    /\ ret.value = outputHist[D_2024_01_01].rows[1][priorArgs.column]
    /\ ret.value # outputHist[D_2024_01_01].rows[2][priorArgs.column]
    /\ outputHist[D_2024_01_01].rows[2]["Account"] = "Checking"
    /\ outputHist[D_2024_01_01].rows[2][priorArgs.column] # None

\* The file has no Account column, or no row of the account.
LacksAccount(file, account) ==
    \/ "Account" \notin file.cols
    \/ \A i \in 1..Len(file.rows) : file.rows[i]["Account"] # account

\* C3: a lookup for an account with a run date reads the file of a latest
\* folder before the run date and no other, and fails with ConfigError when
\* that file has no Account column or no row of the account, whatever older
\* folders hold.
C3_MissingAccount ==
    (/\ pc = "done"
     /\ priorArgs.account # ""
     /\ ParseDate(priorArgs.run_date) # NoDate
     /\ FoldersBefore(priorArgs.run_date) # {})
    =>
        /\ readFolder \in LatestFoldersBefore(priorArgs.run_date)
        /\ LacksAccount(outputHist[readFolder], priorArgs.account)
            => ret.kind = "ConfigError"

\* The lookup failed with ConfigError on the file in 2024-02-01, which has
\* rows of another account only, while the file in 2024-01-01 has a row of
\* the account with a value.
C3_Witness ==
    /\ pc = "done"
    /\ priorArgs.account = "Checking"
    /\ priorArgs.run_date = D_2024_03_01
    /\ readFolder = D_2024_02_01
    /\ "Account" \in outputHist[D_2024_02_01].cols
    /\ Len(outputHist[D_2024_02_01].rows) > 0
    /\ ret.kind = "ConfigError"
    /\ \E i \in 1..Len(outputHist[D_2024_01_01].rows) :
        /\ outputHist[D_2024_01_01].rows[i]["Account"] = "Checking"
        /\ outputHist[D_2024_01_01].rows[i][priorArgs.column] # None

-----------------------------------------------------------------------------
(* C4 *)

\* The quote of USD to currency c on day d is present and not zero.
HasQuote(d, c) ==
    LET key == "USD" \o c IN
    /\ key \in DOMAIN apiQuotes[d]
    /\ apiQuotes[d][key] # None
    /\ apiQuotes[d][key][1] # 0

\* The entry e is right for day d and currency c: 1.0 for USD, else the
\* number that multiplied by the quote gives one.
EntryRight(e, d, c) ==
    IF c = "USD" THEN e = <<1, 1>>
    ELSE RatMul(e, apiQuotes[d]["USD" \o c]) = <<1, 1>>

\* C4: with source USD, build_usd_rates has for every quoted day an entry 1.0
\* for USD when requested, and for another requested currency an entry
\* exactly when its quote is present and not zero, equal to 1 / quote; the
\* same for the one currency of build_usd_rate_series; no entry is zero and
\* there is no other entry.  With another source both raise RuntimeError and
\* give no table.
C4_RateTables ==
    /\ (pc \in {"rates_done", "series_done"} /\ apiSource # "USD")
        => ret = [kind |-> "RuntimeError", value |-> <<>>]
    /\ (pc = "rates_done" /\ apiSource = "USD") =>
        /\ ret.kind = "ok"
        /\ \A d \in DOMAIN apiQuotes, c \in rateArgs \ {""} :
            /\ (<<d, c>> \in DOMAIN ret.value) <=> (c = "USD" \/ HasQuote(d, c))
            /\ (<<d, c>> \in DOMAIN ret.value) => EntryRight(ret.value[<<d, c>>], d, c)
        /\ \A k \in DOMAIN ret.value :
            /\ k[1] \in DOMAIN apiQuotes
            /\ k[2] \in rateArgs \ {""}
            /\ ret.value[k][1] # 0
    /\ (pc = "series_done" /\ apiSource = "USD") =>
        /\ ret.kind = "ok"
        /\ \A d \in DOMAIN apiQuotes, c \in rateArgs :
            /\ (d \in DOMAIN ret.value) <=> (c = "USD" \/ HasQuote(d, c))
            /\ (d \in DOMAIN ret.value) => EntryRight(ret.value[d], d, c)
        /\ \A d \in DOMAIN ret.value :
            /\ d \in DOMAIN apiQuotes
            /\ ret.value[d][1] # 0

\* build_usd_rates was asked for USD, GBP and EUR over two quoted days: on
\* one day GBP is quoted 0.8 and has the entry 1.25; on the other its quote
\* is zero and it has no entry.
C4_Witness ==
    /\ pc = "rates_done"
    /\ apiSource = "USD"
    /\ rateArgs = {"USD", "GBP", "EUR"}
    /\ \E d1, d2 \in DOMAIN apiQuotes :
        /\ d1 # d2
        /\ QuoteOf(apiQuotes[d1], "USDGBP") = <<4, 5>>
        /\ ret.value[<<d1, "GBP">>] = <<5, 4>>
        /\ QuoteOf(apiQuotes[d2], "USDGBP") = <<0, 1>>
        /\ <<d2, "GBP">> \notin DOMAIN ret.value
        /\ ret.value[<<d2, "USD">>] = <<1, 1>>

-----------------------------------------------------------------------------
(* C5, C6, C7 *)

\* The sum of a column over the transactions of an account dated on or
\* before a date.
RECURSIVE SumThrough(_, _, _, _)
SumThrough(txns, name, date, column) ==
    IF txns = <<>> THEN 0
    ELSE (IF Head(txns)["Account"] = name /\ Head(txns)["Date"] <= date
          THEN Head(txns)[column] ELSE 0)
            + SumThrough(Tail(txns), name, date, column)

\* The dates on which an account has at least one transaction.
DatesWithActivity(name) ==
    {transactions[i]["Date"] : i \in
        {j \in 1..Len(transactions) : transactions[j]["Account"] = name}}

\* The records of an account in the returned history, in its order.
RecordsOf(name) == SelectSeq(ret.value, LAMBDA r : r["Account"] = name)

\* The k-th record of an account is dated on its k-th date with activity.
OnKthDate(name, k) ==
    LET date == ParseDate(RecordsOf(name)[k]["Date"])
    IN /\ date \in DatesWithActivity(name)
       /\ Cardinality({d \in DatesWithActivity(name) : d <= date}) = k

BalanceReturned == pc = "balance_done" /\ ret.kind = "ok"

ConfiguredAccounts ==
    {balanceArgs.accounts[i] : i \in 1..Len(balanceArgs.accounts)}

\* C5: for an account in the reporting currency, the Balance on its k-th
\* date with activity is the starting balance plus the sum of Amount over
\* its transactions dated on or before that date, Original Balance equals
\* Balance on every record, and rate_lookup is not called for it.
C5_UsdBalance ==
    BalanceReturned =>
        \A account \in ConfiguredAccounts :
            account.currency = "USD" =>
                /\ Len(RecordsOf(account.name))
                        = Cardinality(DatesWithActivity(account.name))
                /\ \A k \in 1..Len(RecordsOf(account.name)) :
                    LET r == RecordsOf(account.name)[k]
                    IN /\ OnKthDate(account.name, k)
                       /\ r["Balance"] =
                            <<account.starting_balance
                                + SumThrough(transactions, account.name,
                                             ParseDate(r["Date"]), "Amount")>>
                       /\ r["Original Balance"] = r["Balance"]
                /\ \A i \in 1..Len(lookupCalls) :
                    lookupCalls[i][2] # account.currency
                /\ (\A other \in ConfiguredAccounts : other.currency = "USD")
                        => lookupCalls = <<>>

C5_Witness ==
    /\ BalanceReturned
    /\ \E account \in ConfiguredAccounts :
        /\ account.currency = "USD"
        /\ Len(RecordsOf(account.name)) = 2
        /\ Len(AccountTxns(transactions, account.name)) = 3

\* b is x = num / den rounded to an integer, a tie going to the even one.
IsRounded(b, num, den) ==
    /\ 2 * Abs(b * den - num) <= den
    /\ 2 * Abs(b * den - num) = den => b % 2 = 0

\* C6: for an account in another currency, Original Balance on each date
\* with activity is the starting balance plus the sum of Original Amount
\* over its transactions dated on or before that date; Balance is that
\* Original Balance times the rate of that date rounded to 2 decimals, and
\* is missing, the record still present, when rate_lookup has no rate.
C6_ForeignBalance ==
    BalanceReturned =>
        \A account \in ConfiguredAccounts :
            account.currency # "USD" =>
                /\ Len(RecordsOf(account.name))
                        = Cardinality(DatesWithActivity(account.name))
                /\ \A k \in 1..Len(RecordsOf(account.name)) :
                    LET r == RecordsOf(account.name)[k]
                        original == account.starting_balance
                            + SumThrough(transactions, account.name,
                                         ParseDate(r["Date"]), "Original Amount")
                        rate == RateLookup(balanceArgs.rates, r["Date"],
                                           account.currency)
                    IN /\ OnKthDate(account.name, k)
                       /\ r["Original Balance"] = <<original>>
                       /\ rate = None => r["Balance"] = None
                       /\ rate # None =>
                            /\ r["Balance"] # None
                            /\ IsRounded(r["Balance"][1],
                                         original * rate[1], rate[2])

C6_Witness ==
    /\ BalanceReturned
    /\ \E account \in ConfiguredAccounts :
        /\ account.currency # "USD"
        /\ Len(RecordsOf(account.name)) = 2
        /\ RecordsOf(account.name)[1]["Balance"] = None
        /\ RecordsOf(account.name)[2]["Balance"] # None
        /\ RateLookup(balanceArgs.rates, RecordsOf(account.name)[2]["Date"],
                      account.currency) = <<5, 4>>

\* C7: with accounts of distinct names, the history has exactly one record
\* for each account and date on which the account has a transaction and no
\* other record; the records are in ascending order of account name and,
\* within an account, of strictly increasing date; and the call raises
\* RuntimeError when no configured account has a transaction.
C7_Shape ==
    pc = "balance_done" =>
        LET names == {account.name : account \in ConfiguredAccounts}
            active == \E name \in names : DatesWithActivity(name) # {}
        IN
        /\ ~active => ret = Raise("RuntimeError")
        /\ active =>
            /\ ret.kind = "ok"
            /\ \A name \in names : \A date \in DatesWithActivity(name) :
                Cardinality({i \in 1..Len(ret.value) :
                    /\ ret.value[i]["Account"] = name
                    /\ ParseDate(ret.value[i]["Date"]) = date}) = 1
            /\ \A i \in 1..Len(ret.value) :
                /\ ret.value[i]["Account"] \in names
                /\ ParseDate(ret.value[i]["Date"])
                        \in DatesWithActivity(ret.value[i]["Account"])
            /\ \A i \in 1..Len(ret.value) : i < Len(ret.value) =>
                \/ NameRank(ret.value[i]["Account"])
                        < NameRank(ret.value[i + 1]["Account"])
                \/ /\ ret.value[i]["Account"] = ret.value[i + 1]["Account"]
                   /\ ParseDate(ret.value[i]["Date"])
                        < ParseDate(ret.value[i + 1]["Date"])

C7_Witness ==
    /\ BalanceReturned
    /\ Len(balanceArgs.accounts) = 2
    /\ balanceArgs.accounts[1].name = "Savings"
    /\ Len(ret.value) = 3
    /\ ret.value[1]["Account"] = "Checking"
    /\ ret.value[3]["Account"] = "Savings"

C7_WitnessError ==
    /\ pc = "balance_done"
    /\ ret = Raise("RuntimeError")
    /\ Len(balanceArgs.accounts) = 1
    /\ Len(transactions) = 2

-----------------------------------------------------------------------------
(* C8 *)

\* The rows of the checking export whose State is COMPLETED or PENDING and
\* whose Started Date is a date, in the order of the export.
CheckingSurvivors ==
    SelectSeq(inputFile, LAMBDA row :
        /\ row["State"] = "COMPLETED" \/ row["State"] = "PENDING"
        /\ StartedDates[row["Started Date"]] # NoDate)

\* The key of a checking row in a rate table: its day and its currency.
CheckingRateKey(row) ==
    <<FormatDate(StartedDates[row["Started Date"]]), row["Currency"]>>

\* A record is the canonical record of a checking row under a rate table.
IsCheckingRecord(record, row, table) ==
    /\ record["Date"] = CheckingRateKey(row)[1]
    /\ record["Merchant"] = row["Description"]
    /\ record["Original Statement"] = row["Description"]
    /\ record["Account"] = <<"Revolut Checking">>
    /\ record["Original Amount"] = <<row["Amount"]>>
    /\ IsRounded(record["Amount"][1],
                 row["Amount"] * table[CheckingRateKey(row)][1],
                 table[CheckingRateKey(row)][2])

\* C8: in a run of the checking converter that built its rate table, if a
\* surviving row has a day and currency without an entry in the table the
\* run raises ValueError and leaves the output file as it was; otherwise
\* the file written holds one record for each surviving row, in the order
\* of the export, with Amount the original amount times the rate of that
\* day rounded to 2 decimals.
C8_CheckingStrict ==
    [][(pc' = "checking_done" /\ builtRates'.built) =>
        LET table == builtRates'.table
            rows == CheckingSurvivors
            written == outputFiles'[CheckingOutput]
        IN
        IF \E i \in 1..Len(rows) : CheckingRateKey(rows[i]) \notin DOMAIN table
        THEN /\ ret' = Raise("ValueError")
             /\ outputFiles' = outputFiles
        ELSE /\ ret'.kind = "ok"
             /\ written.exists
             /\ Len(written.rows) = Len(rows)
             /\ \A i \in 1..Len(rows) :
                    IsCheckingRecord(written.rows[i], rows[i], table)
      ]_vars

\* A run that failed on its second surviving row, the first having a rate,
\* over a file an earlier run left.
C8_Witness ==
    /\ pc = "checking_done"
    /\ builtRates.built
    /\ ret = Raise("ValueError")
    /\ Len(CheckingSurvivors) = 2
    /\ CheckingRateKey(CheckingSurvivors[1]) \in DOMAIN builtRates.table
    /\ CheckingRateKey(CheckingSurvivors[2]) \notin DOMAIN builtRates.table
    /\ outputFiles[CheckingOutput] = StaleImport("Revolut Checking")

\* A run that wrote two records, the second converted at 1.25.
C8_WitnessWritten ==
    /\ pc = "checking_done"
    /\ ret.kind = "ok"
    /\ Len(inputFile) = 2
    /\ Len(outputFiles[CheckingOutput].rows) = 2
    /\ outputFiles[CheckingOutput].rows[2]["Amount"] = <<0 - 501>>

-----------------------------------------------------------------------------
(* C9 *)

\* The amounts, in pence, the money cells of the export stand for.
PenceOf(cell) ==
    IF cell = P_10_02 THEN 1002
    ELSE IF cell = P_4_01 THEN 401
    ELSE IF cell = P_1_014_03 THEN 101403
    ELSE IF cell = P_0_5 THEN 50
    ELSE 0

\* The key of a savings row in a rate table: its day and GBP.
SavingsRateKey(row) == <<FormatDate(SavingsDates[row["Date"]]), "GBP">>

\* The rows of the savings export with a parsable date that have, or lack,
\* a rate of their day in the table the run built, in the order of the
\* export.
SavingsWithRate ==
    SelectSeq(inputFile, LAMBDA row :
        /\ SavingsDates[row["Date"]] # NoDate
        /\ SavingsRateKey(row) \in DOMAIN builtRates.table)
SavingsWithoutRate ==
    SelectSeq(inputFile, LAMBDA row :
        /\ SavingsDates[row["Date"]] # NoDate
        /\ SavingsRateKey(row) \notin DOMAIN builtRates.table)

\* A record is the canonical record of a savings row under a rate table.
IsSavingsRecord(record, row, table) ==
    LET original == PenceOf(row["Money in"]) - PenceOf(row["Money out"])
    IN /\ record["Date"] = SavingsRateKey(row)[1]
       /\ record["Merchant"] = row["Description"]
       /\ record["Original Statement"] = row["Description"]
       /\ record["Account"] = <<"Revolut Savings">>
       /\ record["Original Amount"] = <<original>>
       /\ IsRounded(record["Amount"][1],
                    original * table[SavingsRateKey(row)][1],
                    table[SavingsRateKey(row)][2])

\* C9: a run of the savings converter that built its rate table completes
\* and writes its output file, whose records are those of the rows with a
\* parsable date and a GBP rate of their day, in the order of the export,
\* each with Original Amount = Money in - Money out and Amount that times
\* the rate rounded to 2 decimals; each row with a parsable date and no
\* rate is passed over with one warning.
C9_SavingsSkip ==
    (pc = "savings_done" /\ builtRates.built) =>
        LET written == outputFiles[SavingsOutput]
        IN /\ ret.kind = "ok"
           /\ written.exists
           /\ Len(written.rows) = Len(SavingsWithRate)
           /\ \A i \in 1..Len(SavingsWithRate) :
                IsSavingsRecord(written.rows[i], SavingsWithRate[i], builtRates.table)
           /\ Len(warns) = Len(SavingsWithoutRate)
           /\ \A i \in 1..Len(SavingsWithoutRate) :
                /\ warns[i].warn = "no exchange rate"
                /\ warns[i].date = SavingsRateKey(SavingsWithoutRate[i])[1]

\* A run whose first row had no rate and whose second row was written,
\* from pounds with a thousands separator.
C9_Witness ==
    /\ pc = "savings_done"
    /\ builtRates.built
    /\ Len(SavingsWithoutRate) = 1
    /\ Len(SavingsWithRate) = 1
    /\ SavingsWithoutRate[1] = inputFile[1]
    /\ inputFile[2]["Money in"] = P_1_014_03
    /\ Len(outputFiles[SavingsOutput].rows) = 1
    /\ Len(warns) = 1

\* A run that wrote a file without records: none of its rows had a rate.
C9_WitnessAllSkipped ==
    /\ pc = "savings_done"
    /\ builtRates.built
    /\ Len(SavingsWithoutRate) = 2
    /\ outputFiles[SavingsOutput] = Written(<<>>)

-----------------------------------------------------------------------------
(* C10 *)

\* The rows of the checking export the run dropped: filtered out by State,
\* or with a Started Date that is no date.
CheckingDropped ==
    SelectSeq(inputFile, LAMBDA row :
        \/ row["State"] \notin {"COMPLETED", "PENDING"}
        \/ StartedDates[row["Started Date"]] = NoDate)

\* C10, as stated, for the checking converter: by the end of a run every
\* row that was dropped, for its State or for a Started Date that does not
\* parse, is accompanied by a WARN line.
C10_AsStated ==
    (pc = "checking_done" /\ ret.kind = "ok") =>
        Len(warns) >= Len(CheckingDropped)

\* A run that completed, wrote the one row it kept and dropped the other
\* for its State.
C10_DroppedByState ==
    /\ pc = "checking_done"
    /\ ret.kind = "ok"
    /\ Len(inputFile) = 2
    /\ inputFile[1]["State"] = "REVERTED"
    /\ StartedDates[inputFile[1]["Started Date"]] # NoDate
    /\ Len(outputFiles[CheckingOutput].rows) = 1
    /\ warns = <<>>

-----------------------------------------------------------------------------
(* C11 *)

\* The date of the last run that completed.
LastRunDate == runLog.dates[Len(runLog.dates)]

\* A step that is a run of the entry point.
IsRun == runs' = runs + 1

\* C11: a run of a balance-history entry point for the run date of the run
\* that completed just before it, with no file of the output root changed
\* in between, leaves every balance-history file as that first run left
\* it: it writes the same file again, or fails and writes nothing.
C11_RerunSameFile ==
    [][(/\ IsRun
        /\ runLog.same >= 1
        /\ reached' # {}
        /\ priorArgs'.run_date = LastRunDate)
            => outputHist' = outputHist]_vars

\* The entry point ran twice for one date, completed both times, and wrote
\* a history of at least one row.
C11_Witness ==
    /\ runLog.same = 2
    /\ ret.kind = "ok"
    /\ "write" \in reached
    /\ priorArgs.run_date = LastRunDate
    /\ Len(outputHist[LastRunDate].rows) >= 1

-----------------------------------------------------------------------------
(* C12 *)

\* The original amounts, summed, of the transactions of an account in the
\* import files of a sequence of folders.
RECURSIVE SumOriginal(_, _)
SumOriginal(rows, account) ==
    IF rows = <<>> THEN 0
    ELSE (IF Head(rows)["Account"][1] = account
          THEN Head(rows)["Original Amount"][1] ELSE 0)
            + SumOriginal(Tail(rows), account)

RECURSIVE ImportedOriginal(_, _)
ImportedOriginal(folders, account) ==
    IF folders = <<>> THEN 0
    ELSE SumOriginal(importTree[Head(folders)][CheckingOutput].rows, account)
            + SumOriginal(importTree[Head(folders)][SavingsOutput].rows, account)
            + ImportedOriginal(Tail(folders), account)

\* The runs that completed had increasing run dates, and every transaction
\* import file of the output root is in the folder of one of them.
IncreasingRuns ==
    /\ runLog.same >= 1
    /\ \A i, j \in 1..Len(runLog.dates) :
            i < j => ParseDate(runLog.dates[i]) < ParseDate(runLog.dates[j])
    /\ \A f \in GenFolderSet, n \in {CheckingOutput, SavingsOutput} :
            importTree[f][n].exists =>
                \E i \in 1..Len(runLog.dates) : runLog.dates[i] = f

\* The last Original Balance of the history the last run wrote.
LastOriginalBalance ==
    LET rows == outputHist[LastRunDate].rows
    IN rows[Len(rows)]["Original Balance"][1]

\* C12, as stated, for the savings entry point: after runs of increasing
\* run dates, the last Original Balance the last run wrote is the starting
\* balance of the first run plus the original amounts of the account's
\* transactions in the import files of the runs, each counted once.
C12_AsStated ==
    (entryPoint = "savings" /\ IncreasingRuns) =>
        LastOriginalBalance =
            runLog.start[1] + ImportedOriginal(runLog.dates, SavingsAccount)

\* Two runs of increasing dates, each with one transaction in the import
\* file of its date: the second run started from the balance the first
\* wrote and added the transaction of the first run to it again.
C12_CountedTwice ==
    /\ entryPoint = "savings"
    /\ IncreasingRuns
    /\ runLog.dates = <<D_2024_02_01, D_2024_03_01>>
    /\ LastOriginalBalance =
            runLog.start[1]
                + 2 * SumOriginal(importTree[D_2024_02_01][SavingsOutput].rows,
                                  SavingsAccount)
                + SumOriginal(importTree[D_2024_03_01][SavingsOutput].rows,
                              SavingsAccount)
    /\ SumOriginal(importTree[D_2024_02_01][SavingsOutput].rows,
                   SavingsAccount) # 0

-----------------------------------------------------------------------------
(* C13 *)

\* No folder dated strictly before the run date holds the balance-history
\* file.
NoPriorHistory(run_date) ==
    \A f \in DOMAIN outputHist :
        outputHist[f].exists => ~(ParseDate(f) < ParseDate(run_date))

\* No folder holds a balance-history file.
NoHistoryAtAll == \A f \in DOMAIN outputHist : ~outputHist[f].exists

\* C13: a run that resolved its run date while no folder dated strictly
\* before it held the balance-history file ends with RuntimeError after the
\* lookup alone, which read no file: no transactions loaded, no rates
\* fetched, nothing printed, no history file written; and a run over an
\* output root without any balance-history file leaves it without one.
C13_NoHistory ==
    [][IsRun =>
        /\ (reached' # {} /\ NoPriorHistory(priorArgs'.run_date)) =>
                /\ ret' = Raise("RuntimeError")
                /\ readFolder' = Unset
                /\ reached' = {"lookup"}
                /\ warns' = <<>>
                /\ outputHist' = outputHist
        /\ NoHistoryAtAll => (\A f \in DOMAIN outputHist : ~outputHist'[f].exists)
      ]_vars

\* A run for 2024-1-1 ended with RuntimeError after the lookup alone while
\* the only balance-history file was in the folder 2024-01-01, of the same
\* date, and import files were there to load.
C13_Witness ==
    /\ runs >= 1
    /\ ret = Raise("RuntimeError")
    /\ reached = {"lookup"}
    /\ readFolder = Unset
    /\ priorArgs.run_date = D_2024_1_1
    /\ outputHist[D_2024_01_01].exists
    /\ \E f \in GenFolderSet : importTree[f][OwnImportOf(entryPoint)].exists

====
